---- MODULE Spec2Model ----
(***************************************************************************)
(* Bubulle: line-anchored notes kept in one JSON file.                     *)
(*                                                                         *)
(* The model covers the notes store (NotesStorage + fileUtils), and the    *)
(* orchestrator (NotesManager) with the dialogs it waits on.               *)
(*                                                                         *)
(* Representation of JavaScript values                                     *)
(*   - a path string is the sequence of its "/"-separated segments, so an  *)
(*     absolute path starts with the empty segment: "/w/a.ts" is           *)
(*     <<"", "w", "a.ts">> and "./a.ts" is <<".", "a.ts">>;                *)
(*   - a text is the sequence of its characters;                           *)
(*   - a timestamp string is the millisecond instant it denotes;           *)
(*   - an element of the persisted array is a record of the four fields    *)
(*     with, under "typeof", what the typeof operator answers for each     *)
(*     field, and under "truthy" whether the element itself is truthy      *)
(*     (null is not).                                                      *)
(***************************************************************************)
EXTENDS Integers, Sequences, FiniteSets, TLC

(***************************************************************************)
(* Bounds of the model.                                                    *)
(***************************************************************************)
MaxClock == 1

MaxNotes == 2

MaxLines == 2

MaxTimers == 3

\* The longest text formatTextForDisplay is given.
MaxText == 5

(***************************************************************************)
(* DEFAULT_CONFIG                                                          *)
(***************************************************************************)
MAX_NOTE_LENGTH == 1000

CLICK_DEBOUNCE_TIME == 100

DECORATION_UPDATE_DELAY == 200

(***************************************************************************)
(* Inputs.                                                                 *)
(***************************************************************************)
Cwd == <<"", "w">>

PathInputs == { <<"", "w", "a.ts">>, <<".", "a.ts">>, <<"", "w", "b.ts">> }

LineInputs == { 0 - 1, 0 }

TextInputs == { <<" ", "a", " ">> }

SaveFaults == { "none", "write", "rename" }

(***************************************************************************)
(* path.resolve                                                            *)
(***************************************************************************)
RECURSIVE normalizeSegments(_, _)
normalizeSegments(segs, acc) ==
    IF segs = <<>> THEN acc
    ELSE LET s == Head(segs) IN
         IF s = "" \/ s = "." THEN normalizeSegments(Tail(segs), acc)
         ELSE IF s = ".."
              THEN normalizeSegments(Tail(segs),
                       IF acc = <<>> THEN acc ELSE SubSeq(acc, 1, Len(acc) - 1))
              ELSE normalizeSegments(Tail(segs), Append(acc, s))

resolve(p) ==
    IF p # <<>> /\ Head(p) = ""
    THEN <<"">> \o normalizeSegments(Tail(p), <<>>)
    ELSE <<"">> \o normalizeSegments(Tail(Cwd) \o p, <<>>)

(***************************************************************************)
(* String.prototype.trim                                                   *)
(***************************************************************************)
RECURSIVE trimStart(_)
trimStart(t) ==
    IF t # <<>> /\ Head(t) = " " THEN trimStart(Tail(t)) ELSE t

RECURSIVE trimEnd(_)
trimEnd(t) ==
    IF t # <<>> /\ t[Len(t)] = " " THEN trimEnd(SubSeq(t, 1, Len(t) - 1)) ELSE t

trim(t) == trimEnd(trimStart(t))

(***************************************************************************)
(* Date.prototype.toISOString of the clock reading.                        *)
(***************************************************************************)
toISOString(ms) == ms

(***************************************************************************)
(* Notes and the elements of the persisted array.                          *)
(***************************************************************************)
NoteTypes ==
    [filePath |-> "string", line |-> "number", text |-> "string",
     timestamp |-> "string"]

Note(filePath, line, text, timestamp) ==
    [filePath |-> filePath, line |-> line, text |-> text,
     timestamp |-> timestamp, truthy |-> TRUE, typeof |-> NoteTypes]

(***************************************************************************)
(* File contents.  kind says how the trimmed bytes parse:                  *)
(*   "absent"   no such file                                               *)
(*   "blank"    empty, or white space only                                 *)
(*   "garbage"  not JSON                                                   *)
(*   "badshape" JSON whose top level is not {notes: array}                 *)
(*   "notes"    JSON {notes: [...]}, the array under notes                 *)
(* torn marks bytes left by a write that did not complete.                 *)
(***************************************************************************)
Absent == [kind |-> "absent", notes |-> <<>>, torn |-> FALSE]

Blank == [kind |-> "blank", notes |-> <<>>, torn |-> FALSE]

Garbage == [kind |-> "garbage", notes |-> <<>>, torn |-> FALSE]

BadShape == [kind |-> "badshape", notes |-> <<>>, torn |-> FALSE]

Torn == [kind |-> "garbage", notes |-> <<>>, torn |-> TRUE]

TornEmpty == [kind |-> "blank", notes |-> <<>>, torn |-> TRUE]

existsSync(f) == f.kind # "absent"

JSONstringify(notesData) ==
    [kind |-> "notes", notes |-> notesData.notes, torn |-> FALSE]

JSONparse(data) ==
    [threw |-> data.kind = "garbage",
     value |-> [notesIsArray |-> data.kind = "notes", notes |-> data.notes]]

(***************************************************************************)
(* Messages the user is shown: vscode.window.show*Message(text).           *)
(***************************************************************************)
Msg(severity, text) == [severity |-> severity, text |-> text]

(***************************************************************************)
(* The disk: the notes file, its ".tmp" sibling and the ".backup.<ms>"     *)
(* siblings (one record per existing backup path).                         *)
(***************************************************************************)
EmptyDisk == [notes |-> Absent, tmp |-> "absent", backups |-> {}]

backupPaths(d) == { b.ms : b \in d.backups }

(***************************************************************************)
(* fileUtils                                                               *)
(***************************************************************************)
safeReadFile_unguarded(f) ==
    IF existsSync(f)
    THEN [threw |-> FALSE, isNull |-> FALSE, data |-> f]
    ELSE [threw |-> TRUE, isNull |-> TRUE, data |-> f]

safeReadFile(f) ==
    IF existsSync(f)
    THEN [threw |-> FALSE, isNull |-> FALSE, data |-> f]
    ELSE [threw |-> FALSE, isNull |-> TRUE, data |-> f]

backupCorruptedFile_moves(d, now, io) ==
    IF existsSync(d.notes) /\ io # "copy"
    THEN [d EXCEPT !.backups =
             { b \in @ : b.ms # now } \cup { [ms |-> now, content |-> d.notes] },
                   !.notes = Absent]
    ELSE d

\* copyFileSync replaces an existing destination; a failure is swallowed.
backupCorruptedFile(d, now, io) ==
    IF existsSync(d.notes) /\ io # "copy"
    THEN [d EXCEPT !.backups =
             { b \in @ : b.ms # now } \cup { [ms |-> now, content |-> d.notes] }]
    ELSE d

\* writeFileSync(tempPath) then renameSync(tempPath, filePath); either may throw.
\* Nothing reads the temporary file: the disk keeps of it whether it exists and
\* whether its write completed.
atomicWriteFile(d, data, io) ==
    IF io = "write" THEN [threw |-> TRUE, disk |-> [d EXCEPT !.tmp = "torn"]]
    ELSE IF io = "rename" THEN [threw |-> TRUE, disk |-> [d EXCEPT !.tmp = "complete"]]
    ELSE [threw |-> FALSE, disk |-> [d EXCEPT !.notes = data, !.tmp = "absent"]]

(***************************************************************************)
(* NotesStorage                                                            *)
(***************************************************************************)
isValidNotesData(data) == data.notesIsArray

isValidNote_blankText(note) ==
    /\ note.truthy
    /\ note.typeof.filePath = "string"
    /\ note.typeof.line = "number"
    /\ note.line >= 0
    /\ note.typeof.text = "string"
    /\ note.typeof.timestamp = "string"

isValidNote_anyLine(note) ==
    /\ note.truthy
    /\ note.typeof.filePath = "string"
    /\ note.typeof.line = "number"
    /\ note.typeof.text = "string"
    /\ Len(trim(note.text)) > 0
    /\ note.typeof.timestamp = "string"

isValidNote(note) ==
    /\ note.truthy
    /\ note.typeof.filePath = "string"
    /\ note.typeof.line = "number"
    /\ note.line >= 0
    /\ note.typeof.text = "string"
    /\ Len(trim(note.text)) > 0
    /\ note.typeof.timestamp = "string"

sanitizeNotes_untrimmed(notes) ==
    LET kept == SelectSeq(notes, isValidNote) IN
    [i \in 1..Len(kept) |-> [kept[i] EXCEPT !.filePath = resolve(@)]]

sanitizeNotes(notes) ==
    LET kept == SelectSeq(notes, isValidNote) IN
    [i \in 1..Len(kept) |->
        [kept[i] EXCEPT !.filePath = resolve(@), !.text = trim(@)]]

backupAndReset(d, now, io) == backupCorruptedFile(d, now, io)

loadNotes(d, now, io) ==
    LET read == safeReadFile(d.notes) IN
    IF read.threw
    THEN [notes |-> <<>>,
          msgs |-> << Msg("warning", "LOAD_ERROR") >>,
          disk |-> backupAndReset(d, now, io)]
    ELSE IF read.isNull \/ read.data.kind = "blank"
    THEN [notes |-> <<>>, msgs |-> <<>>, disk |-> d]
    ELSE LET parsed == JSONparse(read.data) IN
         IF parsed.threw
         THEN [notes |-> <<>>,
               msgs |-> << Msg("warning", "CORRUPTED_FILE") >>,
               disk |-> backupAndReset(d, now, io)]
         ELSE IF ~isValidNotesData(parsed.value)
         THEN [notes |-> <<>>, msgs |-> <<>>,
               disk |-> backupAndReset(d, now, io)]
         ELSE [notes |-> sanitizeNotes(parsed.value.notes),
               msgs |-> <<>>, disk |-> d]

saveNotes(notesData, d, io) ==
    LET w == atomicWriteFile(d, JSONstringify(notesData), io) IN
    [threw |-> w.threw,
     msgs |-> IF w.threw THEN << Msg("error", "SAVE_ERROR") >> ELSE <<>>,
     disk |-> w.disk]

\* findIndex: the first index whose note matches, 0 for -1.
existingNoteIndex_rawPath(notes, filePath, line) ==
    LET hits == { i \in 1..Len(notes) :
                    notes[i].filePath = filePath /\ notes[i].line = line } IN
    IF hits = {} THEN 0 ELSE CHOOSE i \in hits : \A j \in hits : i <= j

existingNoteIndex_last(notes, filePath, line) ==
    LET normalizedFilePath == resolve(filePath)
        hits == { i \in 1..Len(notes) :
                    /\ resolve(notes[i].filePath) = normalizedFilePath
                    /\ notes[i].line = line } IN
    IF hits = {} THEN 0 ELSE CHOOSE i \in hits : \A j \in hits : i >= j

existingNoteIndex(notes, filePath, line) ==
    LET normalizedFilePath == resolve(filePath)
        hits == { i \in 1..Len(notes) :
                    /\ resolve(notes[i].filePath) = normalizedFilePath
                    /\ notes[i].line = line } IN
    IF hits = {} THEN 0 ELSE CHOOSE i \in hits : \A j \in hits : i <= j

addOrUpdateNote(d, filePath, line, text, now, io) ==
    LET loaded == loadNotes(d, now, io)
        existingIndex == existingNoteIndex(loaded.notes, filePath, line)
        newNote == Note(resolve(filePath), line, trim(text), toISOString(now))
        notes == IF existingIndex > 0
                 THEN [loaded.notes EXCEPT ![existingIndex] = newNote]
                 ELSE Append(loaded.notes, newNote)
        saved == saveNotes([notes |-> notes], loaded.disk, io)
    IN [ret |-> TRUE,
        msgs |-> loaded.msgs \o saved.msgs,
        disk |-> saved.disk,
        loaded |-> loaded.notes,
        saveThrew |-> saved.threw]

deleteNote_alwaysSaves(d, filePath, line, now, io) ==
    LET loaded == loadNotes(d, now, io)
        normalizedFilePath == resolve(filePath)
        notes == SelectSeq(loaded.notes,
                     LAMBDA n : ~(resolve(n.filePath) = normalizedFilePath
                                  /\ n.line = line))
        saved == saveNotes([notes |-> notes], loaded.disk, io)
    IN [ret |-> TRUE, msgs |-> loaded.msgs \o saved.msgs, disk |-> saved.disk,
        loaded |-> loaded.notes, saveThrew |-> saved.threw]

deleteNote(d, filePath, line, now, io) ==
    LET loaded == loadNotes(d, now, io)
        normalizedFilePath == resolve(filePath)
        notes == SelectSeq(loaded.notes,
                     LAMBDA n : ~(resolve(n.filePath) = normalizedFilePath
                                  /\ n.line = line))
        saved == saveNotes([notes |-> notes], loaded.disk, io)
    IN IF Len(notes) = Len(loaded.notes)
       THEN [ret |-> FALSE, msgs |-> loaded.msgs, disk |-> loaded.disk,
             loaded |-> loaded.notes, saveThrew |-> FALSE]
       ELSE [ret |-> TRUE, msgs |-> loaded.msgs \o saved.msgs,
             disk |-> saved.disk,
             loaded |-> loaded.notes, saveThrew |-> saved.threw]

\* writeFileSync(filePath) directly: the file is created empty, then filled; a
\* failure leaves the bytes written so far, none ("truncate") or some ("write").
initializeNotesFile(d, io) ==
    IF existsSync(d.notes) THEN d
    ELSE IF io = "truncate" THEN [d EXCEPT !.notes = TornEmpty]
    ELSE IF io = "write" THEN [d EXCEPT !.notes = Torn]
    ELSE [d EXCEPT !.notes = JSONstringify([notes |-> <<>>])]

getNotesForFile(d, filePath, now, io) ==
    LET loaded == loadNotes(d, now, io)
        normalizedPath == resolve(filePath)
    IN [notes |-> SelectSeq(loaded.notes,
                      LAMBDA n : resolve(n.filePath) = normalizedPath),
        msgs |-> loaded.msgs, disk |-> loaded.disk]

noteExists_rawPath(d, filePath, line, now, io) ==
    LET loaded == loadNotes(d, now, io)
    IN [ret |-> \E i \in 1..Len(loaded.notes) :
                   /\ loaded.notes[i].filePath = filePath
                   /\ loaded.notes[i].line = line,
        msgs |-> loaded.msgs, disk |-> loaded.disk]

noteExists(d, filePath, line, now, io) ==
    LET loaded == loadNotes(d, now, io)
        normalizedFilePath == resolve(filePath)
    IN [ret |-> \E i \in 1..Len(loaded.notes) :
                   /\ resolve(loaded.notes[i].filePath) = normalizedFilePath
                   /\ loaded.notes[i].line = line,
        msgs |-> loaded.msgs, disk |-> loaded.disk]

\* String.prototype.localeCompare on paths: segment by segment, a segment by
\* its place in the collation order of the segment names in use.
SegmentOrder == << "", ".", "..", "a.ts", "b.ts", "w" >>

SegmentRank(seg) == CHOOSE i \in 1..Len(SegmentOrder) : SegmentOrder[i] = seg

RECURSIVE localeCompare(_, _)
localeCompare(p, q) ==
    IF p = <<>> /\ q = <<>> THEN 0
    ELSE IF p = <<>> THEN 0 - 1
    ELSE IF q = <<>> THEN 1
    ELSE IF Head(p) = Head(q) THEN localeCompare(Tail(p), Tail(q))
    ELSE IF SegmentRank(Head(p)) < SegmentRank(Head(q)) THEN 0 - 1 ELSE 1

compareNotes_pathOnly(a, b) == localeCompare(a.filePath, b.filePath)

compareNotes(a, b) ==
    LET fileCompare == localeCompare(a.filePath, b.filePath) IN
    IF fileCompare # 0 THEN fileCompare ELSE a.line - b.line

\* Array.prototype.sort is stable: an element goes after those it does not precede.
RECURSIVE insertSorted(_, _)
insertSorted(sorted, n) ==
    IF sorted = <<>> THEN << n >>
    ELSE IF compareNotes(n, Head(sorted)) < 0 THEN << n >> \o sorted
    ELSE << Head(sorted) >> \o insertSorted(Tail(sorted), n)

RECURSIVE sortNotes(_)
sortNotes(notes) ==
    IF notes = <<>> THEN <<>>
    ELSE insertSorted(sortNotes(SubSeq(notes, 1, Len(notes) - 1)), notes[Len(notes)])

getAllNotesSorted(d, now, io) ==
    LET loaded == loadNotes(d, now, io) IN
    [notes |-> sortNotes(loaded.notes), msgs |-> loaded.msgs, disk |-> loaded.disk]

(***************************************************************************)
(* The editor window (vscode.window): the active text editor's document,   *)
(* or NoDoc when there is none, the documents of the visible text editors, *)
(* each document's line count and the length of its lines' text (one       *)
(* length for all the lines of a document), the decorations each editor    *)
(* carries (the notes painted, in the order they were given to             *)
(* setDecorations), and the lines filterValidNotes has warned about on the *)
(* console.                                                                *)
(***************************************************************************)
Docs == << <<"", "w", "a.ts">>, <<"", "w", "b.ts">> >>

DocPaths == { Docs[i] : i \in 1..Len(Docs) }

NoDoc == <<>>

LineTextLength == 12

NoWindow ==
    [active |-> NoDoc, visible |-> {},
     lineCount |-> [p \in DocPaths |-> 1],
     textLength |-> [p \in DocPaths |-> LineTextLength],
     painted |-> [p \in DocPaths |-> <<>>],
     warned |-> [p \in DocPaths |-> {}]]

(***************************************************************************)
(* Timers (setTimeout): the pending callbacks in the order they were set,  *)
(* each with the milliseconds left before it is due.                       *)
(***************************************************************************)
Timer(delay, kind, target, line, character) ==
    [remaining |-> delay, kind |-> kind, target |-> target,
     line |-> line, character |-> character]

setTimeout(pending, timer) == Append(pending, timer)

(***************************************************************************)
(* DecorationManager.  A render threads the window, the disk (a load may   *)
(* back a corrupted file up), the pending timers, the messages shown, the  *)
(* passes made (one per editor rendered, with the notes it read) and the   *)
(* timers set on the way.                                                  *)
(***************************************************************************)
Rendering(w, d, pending) ==
    [window |-> w, disk |-> d, timers |-> pending, msgs |-> <<>>, passes |-> <<>>,
     set |-> <<>>]

\* F of the value of v, with v evaluated once.
Once(v, F(_)) == CHOOSE result \in { F(x) : x \in { v } } : TRUE

filterValidNotes_inclusive(notes, lineCount) ==
    SelectSeq(notes, LAMBDA note : note.line >= 0 /\ note.line <= lineCount)

filterValidNotes(notes, lineCount) ==
    SelectSeq(notes, LAMBDA note : note.line >= 0 /\ note.line < lineCount)

createDecorations(notes) == notes

updateDecorationsForEditor(rs, filePath, now) ==
    Once(rs, LAMBDA s :
        Once(getNotesForFile(s.disk, filePath, now, "none"), LAMBDA r :
            LET validNotes == filterValidNotes(r.notes, s.window.lineCount[filePath])
                decorations == createDecorations(validNotes)
                invalid == { r.notes[i].line : i \in 1..Len(r.notes) }
                               \ { validNotes[i].line : i \in 1..Len(validNotes) }
            IN [s EXCEPT !.window.painted[filePath] = decorations,
                         !.window.warned[filePath] = @ \cup invalid,
                         !.disk = r.disk,
                         !.msgs = @ \o r.msgs,
                         !.passes = Append(@, [path |-> filePath, read |-> r.notes])]))

updateDecorationsForActiveEditor(rs, now) ==
    Once(rs, LAMBDA s :
        IF s.window.active = NoDoc THEN s
        ELSE updateDecorationsForEditor(s, s.window.active, now))

updateDecorationsForFile(rs, filePath, now) ==
    Once(rs, LAMBDA s :
        IF s.window.active = NoDoc \/ s.window.active # filePath THEN s
        ELSE updateDecorationsForEditor(s, filePath, now))

updateDecorations(rs, targetFilePath, now) ==
    IF targetFilePath # NoDoc
    THEN updateDecorationsForFile(rs, targetFilePath, now)
    ELSE updateDecorationsForActiveEditor(rs, now)

\* visibleTextEditors.forEach, in the order of Docs.
RECURSIVE forEachVisible(_, _, _)
forEachVisible(rs, k, now) ==
    Once(rs, LAMBDA s :
        IF k > Len(Docs) THEN s
        ELSE IF Docs[k] \in s.window.visible
        THEN forEachVisible(updateDecorationsForEditor(s, Docs[k], now), k + 1, now)
        ELSE forEachVisible(s, k + 1, now))

updateDecorationsForAllEditors(rs, now) == forEachVisible(rs, 1, now)

(***************************************************************************)
(* State.                                                                  *)
(*   disk   the notes file and its siblings                                *)
(*   clock  Date.now(), in milliseconds                                    *)
(*   last   the most recent call on the store: its arguments, what it      *)
(*          returned, the messages it showed, and what it met and did on   *)
(*          the disk                                                       *)
(*   addEditor   the add-note panel the orchestrator waits on, if any       *)
(*   noteDialog  the note dialog the orchestrator waits on, if any: the     *)
(*               quick pick, then the edit panel or the delete confirmation *)
(*   listing     the notes the list panel shows (as loaded when it opened)  *)
(*   handled     the most recent orchestrator handler: the messages it      *)
(*               showed, whether its annotation was stored when it ran, the *)
(*               render passes it made and the timers it set                *)
(*   window      the editor window                                          *)
(*   timers      the pending setTimeout callbacks                           *)
(*   click       the click handler's lastClickPosition and clickTimeout     *)
(*   burst       the selection events since the click handler was last     *)
(*               idle: the most recent position that started the debounce,  *)
(*               and the evaluations and click callbacks run since          *)
(* Timers run on the event loop's monotonic time and Date.now() reads the   *)
(* wall clock: the model keeps the two apart.                               *)
(***************************************************************************)
VARIABLES disk, clock, last, addEditor, noteDialog, listing, handled,
          window, timers, click, burst

storeVars == << disk, clock, last >>

uiVars == << addEditor, noteDialog, listing, handled >>

envVars == << window, timers, click, burst >>

vars == << disk, clock, last, addEditor, noteDialog, listing, handled,
          window, timers, click, burst >>

\* An annotation, as the data model defines it: a string path, a line number
\* >= 0, a string text that is not blank, a string timestamp.
IsAnnotation(e) ==
    /\ e.truthy
    /\ e.typeof = NoteTypes
    /\ e.line >= 0
    /\ \E k \in 1..Len(e.text) : e.text[k] # " "

\* Elements of the persisted array at (canonical filePath, line).
ElementsAt(f, filePath, line) ==
    { i \in 1..Len(f.notes) :
        /\ f.notes[i].typeof.filePath = "string"
        /\ resolve(f.notes[i].filePath) = resolve(filePath)
        /\ f.notes[i].typeof.line = "number"
        /\ f.notes[i].line = line }

AnnotationsAt(f, filePath, line) ==
    { i \in ElementsAt(f, filePath, line) : IsAnnotation(f.notes[i]) }

\* What a notes file holds, timestamps and order aside.
Entries(f) ==
    { [filePath |-> f.notes[i].filePath, line |-> f.notes[i].line,
       text |-> f.notes[i].text] : i \in 1..Len(f.notes) }

Call(op, filePath, line, io, r, before, after) ==
    [op |-> op, filePath |-> filePath, line |-> line, io |-> io,
     ret |-> r.ret, notes |-> r.notes, msgs |-> r.msgs, saveThrew |-> r.saveThrew,
     given |-> <<>>, text |-> <<>>, again |-> FALSE,
     entriesKept |-> Entries(after.notes) = Entries(before.notes),
     stored |-> AnnotationsAt(before.notes, filePath, line) # {},
     notesFileChanged |-> after.notes # before.notes,
     tmpChanged |-> after.tmp # before.tmp,
     newBackups |-> Cardinality(backupPaths(after) \ backupPaths(before)),
     lostBackups |-> Cardinality(before.backups \ after.backups),
     backupPathFree |-> clock \notin backupPaths(before)]

NoCall ==
    [op |-> "none", filePath |-> <<>>, line |-> 0, io |-> "none",
     ret |-> FALSE, notes |-> <<>>, msgs |-> <<>>, saveThrew |-> FALSE,
     given |-> <<>>, text |-> <<>>, again |-> FALSE, entriesKept |-> TRUE,
     stored |-> FALSE, notesFileChanged |-> FALSE, tmpChanged |-> FALSE,
     newBackups |-> 0, lostBackups |-> 0, backupPathFree |-> TRUE]

NoNote == Note(<<>>, 0, <<>>, 0)

Closed == [stage |-> "closed", note |-> NoNote]

NoEditor == [stage |-> "closed", filePath |-> <<>>, line |-> 0]

NoEvent ==
    [isEmpty |-> FALSE, kind |-> "none", line |-> 0, character |-> 0,
     repeat |-> FALSE, positionChanged |-> FALSE, timerChanged |-> FALSE,
     started |-> FALSE]

NotHandled ==
    [action |-> "none", target |-> <<>>, shown |-> <<>>, stored |-> FALSE,
     renders |-> <<>>, scheduled |-> <<>>, event |-> NoEvent]

NoPosition == [line |-> 0 - 1, character |-> 0 - 1]

NoTimeout == NoPosition

Idle == [lastClickPosition |-> NoPosition, clickTimeout |-> NoTimeout]

NoBurst ==
    [position |-> NoPosition, superseded |-> FALSE, evaluations |-> 0,
     evaluated |-> NoPosition, resolved |-> 0]

EnvInit ==
    /\ window = NoWindow
    /\ timers = <<>>
    /\ click = Idle
    /\ burst = NoBurst

UiInit ==
    /\ addEditor = NoEditor
    /\ noteDialog = Closed
    /\ listing = <<>>
    /\ handled = NotHandled

Init ==
    /\ UiInit
    /\ EnvInit
    /\ disk \in { EmptyDisk, [EmptyDisk EXCEPT !.notes = JSONstringify([notes |-> <<>>])] }
    /\ clock = 0
    /\ last = NoCall

\* Time passes between two calls, or does not.
Tick ==
    /\ clock < MaxClock
    /\ clock' = clock + 1
    /\ UNCHANGED << disk, last >>
    /\ UNCHANGED uiVars
    /\ UNCHANGED envVars

LoadNotes(io) ==
    LET r == loadNotes(disk, clock, io) IN
    /\ disk' = r.disk
    /\ last' = Call("load", <<>>, 0, io,
                    [ret |-> TRUE, notes |-> r.notes, msgs |-> r.msgs,
                     saveThrew |-> FALSE], disk, r.disk)
    /\ UNCHANGED clock
    /\ UNCHANGED uiVars
    /\ UNCHANGED envVars

AddOrUpdateNote(filePath, line, text, io) ==
    LET r == addOrUpdateNote(disk, filePath, line, text, clock, io) IN
    /\ \/ Len(r.loaded) < MaxNotes
       \/ existingNoteIndex(r.loaded, filePath, line) > 0
    /\ disk' = r.disk
    /\ last' = [Call("upsert", filePath, line, io,
                     [ret |-> r.ret, notes |-> <<>>, msgs |-> r.msgs,
                      saveThrew |-> r.saveThrew], disk, r.disk)
                    EXCEPT !.again = /\ last.op = "upsert"
                                     /\ last.filePath = filePath
                                     /\ last.line = line
                                     /\ ~last.saveThrew]
    /\ UNCHANGED clock
    /\ UNCHANGED uiVars
    /\ UNCHANGED envVars

DeleteNote(filePath, line, io) ==
    LET r == deleteNote(disk, filePath, line, clock, io) IN
    /\ disk' = r.disk
    /\ last' = Call("delete", filePath, line, io,
                    [ret |-> r.ret, notes |-> <<>>, msgs |-> r.msgs,
                     saveThrew |-> r.saveThrew], disk, r.disk)
    /\ UNCHANGED clock
    /\ UNCHANGED uiVars
    /\ UNCHANGED envVars

InitializeNotesFile(io) ==
    LET d == initializeNotesFile(disk, io) IN
    /\ disk' = d
    /\ last' = Call("init", <<>>, 0, io,
                    [ret |-> TRUE, notes |-> <<>>, msgs |-> <<>>,
                     saveThrew |-> FALSE], disk, d)
    /\ UNCHANGED clock
    /\ UNCHANGED uiVars
    /\ UNCHANGED envVars

\* The store under any sequence of addOrUpdateNote and deleteNote calls, from an
\* absent or an empty notes file.
Next ==
    \/ Tick
    \/ \E p \in PathInputs, l \in LineInputs, t \in TextInputs, io \in SaveFaults :
          AddOrUpdateNote(p, l, t, io)
    \/ \E p \in PathInputs, l \in LineInputs, io \in SaveFaults : DeleteNote(p, l, io)

Spec == Init /\ [][Next]_vars

(***************************************************************************)
(* The notes file as other programs can leave it.                          *)
(***************************************************************************)
UntypedElement ==
    [filePath |-> <<>>, line |-> 0, text |-> <<>>, timestamp |-> 0,
     truthy |-> TRUE,
     typeof |-> [filePath |-> "undefined", line |-> "undefined",
                 text |-> "undefined", timestamp |-> "undefined"]]

ElementA0 == Note(<<".", "a.ts">>, 0, <<" ", "a", " ">>, 0)

ElementB1 == Note(<<"", "w", "b.ts">>, 1, <<"b">>, 0)

ElementNegativeLine == Note(<<"", "w", "a.ts">>, 0 - 1, <<"a">>, 0)

ElementBlankText == Note(<<"", "w", "a.ts">>, 1, <<" ", " ">>, 0)

ElementNull == [UntypedElement EXCEPT !.truthy = FALSE]

ElementNumberPath ==
    [Note(<<>>, 0, <<"a">>, 0) EXCEPT !.typeof.filePath = "number"]

ElementStringLine ==
    [Note(<<"", "w", "a.ts">>, 0, <<"a">>, 0) EXCEPT !.typeof.line = "string"]

ElementNoText ==
    [Note(<<"", "w", "a.ts">>, 0, <<>>, 0) EXCEPT !.typeof.text = "undefined"]

ElementNumberTimestamp ==
    [Note(<<"", "w", "a.ts">>, 0, <<"a">>, 0) EXCEPT !.typeof.timestamp = "number"]

ExternalContents ==
    { Absent, Blank, Garbage, BadShape,
      JSONstringify([notes |-> <<>>]),
      JSONstringify([notes |-> << ElementB1, ElementNegativeLine, ElementA0 >>]),
      JSONstringify([notes |-> << ElementNull, ElementNumberPath, ElementB1,
                                  ElementStringLine >>]),
      JSONstringify([notes |-> << ElementBlankText, ElementNoText,
                                  ElementNumberTimestamp, UntypedElement >>]) }

\* Another program (or the user) replaces or removes the notes file.
ExternalWrite(content) ==
    /\ content # disk.notes
    /\ disk' = [disk EXCEPT !.notes = content]
    /\ last' = NoCall
    /\ UNCHANGED clock
    /\ UNCHANGED uiVars
    /\ UNCHANGED envVars

InitLoad ==
    /\ UiInit
    /\ EnvInit
    /\ disk = EmptyDisk
    /\ clock = 0
    /\ last = NoCall

\* Activation (initializeNotesFile) and loads, over whatever the notes file holds.
NextLoad ==
    \/ Tick
    \/ \E c \in ExternalContents : ExternalWrite(c)
    \/ \E io \in { "none", "truncate", "write" } : InitializeNotesFile(io)
    \/ \E io \in { "none", "copy" } : LoadNotes(io)

SpecLoad == InitLoad /\ [][NextLoad]_vars

(***************************************************************************)
(* saveNotes and loadNotes one after the other, over collections of valid  *)
(* elements, normalized or not.                                            *)
(***************************************************************************)
ValidElements == { ElementA0, ElementB1 }

RECURSIVE SeqsUpTo(_, _)
SeqsUpTo(S, n) ==
    IF n = 0 THEN { <<>> }
    ELSE SeqsUpTo(S, n - 1)
         \cup { Append(c, e) : c \in { q \in SeqsUpTo(S, n - 1) : Len(q) = n - 1 }, e \in S }

ValidCollections == SeqsUpTo(ValidElements, MaxNotes)

\* saveNotes(c), then loadNotes().
SaveThenLoad(c, io) ==
    LET saved == saveNotes([notes |-> c], disk, io)
        loaded == loadNotes(saved.disk, clock, "none")
    IN
    /\ disk' = loaded.disk
    /\ last' = [Call("saveLoad", <<>>, 0, io,
                     [ret |-> TRUE, notes |-> loaded.notes,
                      msgs |-> saved.msgs \o loaded.msgs, saveThrew |-> saved.threw],
                     disk, loaded.disk) EXCEPT !.given = c]
    /\ UNCHANGED clock
    /\ UNCHANGED uiVars
    /\ UNCHANGED envVars

\* saveNotes(loadNotes()); given is the array the notes file held before.
LoadThenSave(io) ==
    LET loaded == loadNotes(disk, clock, "none")
        saved == saveNotes([notes |-> loaded.notes], loaded.disk, io)
    IN
    /\ disk' = saved.disk
    /\ last' = [Call("loadSave", <<>>, 0, io,
                     [ret |-> TRUE, notes |-> loaded.notes,
                      msgs |-> loaded.msgs \o saved.msgs, saveThrew |-> saved.threw],
                     disk, saved.disk) EXCEPT !.given = disk.notes.notes]
    /\ UNCHANGED clock
    /\ UNCHANGED uiVars
    /\ UNCHANGED envVars

NextRoundTrip ==
    \/ \E c \in ValidCollections, io \in SaveFaults : SaveThenLoad(c, io)
    \/ \E io \in SaveFaults : LoadThenSave(io)

SpecRoundTrip == Init /\ [][NextRoundTrip]_vars

(***************************************************************************)
(* getAllNotesSorted over notes files in any order, with an element that   *)
(* loading drops and pairs stored twice.                                   *)
(***************************************************************************)
ElementA1 == Note(<<"", "w", "a.ts">>, 1, <<"b">>, 0)

SortElements == { ElementA0, ElementA1, ElementB1, ElementNegativeLine }

SortContents ==
    { JSONstringify([notes |-> c]) : c \in SeqsUpTo(SortElements, MaxNotes + 1) }

\* given is what the call before returned, when that was this query too.
GetAllNotesSorted ==
    LET r == getAllNotesSorted(disk, clock, "none") IN
    /\ disk' = r.disk
    /\ last' = [Call("sorted", <<>>, 0, "none",
                     [ret |-> TRUE, notes |-> r.notes, msgs |-> r.msgs,
                      saveThrew |-> FALSE], disk, r.disk) EXCEPT
                    !.again = last.op = "sorted",
                    !.given = IF last.op = "sorted" THEN last.notes ELSE <<>>]
    /\ UNCHANGED clock
    /\ UNCHANGED uiVars
    /\ UNCHANGED envVars

NextSorted ==
    \/ \E c \in SortContents : ExternalWrite(c)
    \/ GetAllNotesSorted

SpecSorted == InitLoad /\ [][NextSorted]_vars

(***************************************************************************)
(* Every operation of the store, over whatever the notes file holds: what  *)
(* the store wrote, what another program left, a pair stored twice.        *)
(***************************************************************************)
ElementA0Again == Note(<<"", "w", "a.ts">>, 0, <<"c">>, 0)

StoreContents ==
    ExternalContents
    \cup { JSONstringify([notes |-> << ElementA0, ElementB1, ElementA0Again >>]) }

NoteExists(filePath, line) ==
    LET r == noteExists(disk, filePath, line, clock, "none") IN
    /\ disk' = r.disk
    /\ last' = Call("exists", filePath, line, "none",
                    [ret |-> r.ret, notes |-> <<>>, msgs |-> r.msgs,
                     saveThrew |-> FALSE], disk, r.disk)
    /\ UNCHANGED clock
    /\ UNCHANGED uiVars
    /\ UNCHANGED envVars

GetNotesForFile(filePath) ==
    LET r == getNotesForFile(disk, filePath, clock, "none") IN
    /\ disk' = r.disk
    /\ last' = Call("queryFile", filePath, 0, "none",
                    [ret |-> TRUE, notes |-> r.notes, msgs |-> r.msgs,
                     saveThrew |-> FALSE], disk, r.disk)
    /\ UNCHANGED clock
    /\ UNCHANGED uiVars
    /\ UNCHANGED envVars

\* Two spellings of one path, and the line the contents above store twice.
StorePaths == { <<"", "w", "a.ts">>, <<".", "a.ts">> }

StoreLines == { 0 }

StoreFaults == { "none", "write" }

StoreTexts == TextInputs \cup { <<"d">> }

NextStore ==
    \/ \E c \in StoreContents : ExternalWrite(c)
    \/ \E p \in StorePaths, l \in StoreLines : NoteExists(p, l)
    \/ \E p \in StorePaths : GetNotesForFile(p)
    \/ GetAllNotesSorted
    \/ \E p \in StorePaths, l \in StoreLines, t \in StoreTexts, io \in StoreFaults :
          AddOrUpdateNote(p, l, t, io)
    \/ \E p \in StorePaths, l \in StoreLines, io \in StoreFaults : DeleteNote(p, l, io)

SpecStore == InitLoad /\ [][NextStore]_vars

(***************************************************************************)
(* textUtils.formatTextForDisplay.  A string is the sequence of its        *)
(* characters; "\n" is the line feed.                                      *)
(***************************************************************************)
\* String.prototype.split(separator): the pieces between the separators, the
\* empty ones included.
RECURSIVE split(_, _)
split(text, separator) ==
    IF \A k \in 1..Len(text) : text[k] # separator THEN << text >>
    ELSE LET k == CHOOSE i \in 1..Len(text) :
                      text[i] = separator /\ \A j \in 1..(i - 1) : text[j] # separator
         IN << SubSeq(text, 1, k - 1) >> \o split(SubSeq(text, k + 1, Len(text)), separator)

\* Array.prototype.join(separator).
RECURSIVE join(_, _)
join(lines, separator) ==
    IF lines = <<>> THEN <<>>
    ELSE IF Len(lines) = 1 THEN lines[1]
    ELSE lines[1] \o << separator >> \o join(Tail(lines), separator)

\* The loop over the words: lines pushed so far, and the line being filled.
RECURSIVE wrapWords_noFlush(_, _, _, _)
wrapWords_noFlush(words, lines, currentLine, maxLineLength) ==
    IF words = <<>>
    THEN IF currentLine # <<>> THEN Append(lines, currentLine) ELSE lines
    ELSE wrapWords_noFlush(Tail(words), lines,
             currentLine \o (IF currentLine # <<>> THEN << " " >> ELSE <<>>) \o Head(words),
             maxLineLength)

RECURSIVE wrapWords(_, _, _, _)
wrapWords(words, lines, currentLine, maxLineLength) ==
    IF words = <<>>
    THEN IF currentLine # <<>> THEN Append(lines, currentLine) ELSE lines
    ELSE LET word == Head(words) IN
         IF Len(currentLine) + Len(word) + 1 <= maxLineLength
         THEN wrapWords(Tail(words), lines,
                  currentLine \o (IF currentLine # <<>> THEN << " " >> ELSE <<>>) \o word,
                  maxLineLength)
         ELSE wrapWords(Tail(words),
                  IF currentLine # <<>> THEN Append(lines, currentLine) ELSE lines,
                  word, maxLineLength)

formatTextForDisplay(text, maxLineLength) ==
    IF text = <<>> THEN <<>>
    ELSE join(wrapWords(split(text, " "), <<>>, <<>>, maxLineLength), "\n")

Characters == { "a", "b", " ", "\n" }

Texts == UNION { [1..n -> Characters] : n \in 0..MaxText }

Widths == { 1, 3 }

\* A call about to be made: given is the text, line the width.
InitFormat ==
    /\ UiInit
    /\ EnvInit
    /\ disk = EmptyDisk
    /\ clock = 0
    /\ \E text \in Texts, maxLineLength \in Widths :
          last = [NoCall EXCEPT !.op = "call", !.given = text, !.line = maxLineLength]

\* The call returns: text is the result.
FormatTextForDisplay ==
    /\ last.op = "call"
    /\ last' = [last EXCEPT !.op = "format",
                            !.text = formatTextForDisplay(last.given, last.line)]
    /\ UNCHANGED << disk, clock >>
    /\ UNCHANGED uiVars
    /\ UNCHANGED envVars

NextFormat == FormatTextForDisplay

SpecFormat == InitFormat /\ [][NextFormat]_vars

(***************************************************************************)
(* The orchestrator (NotesManager) and the surfaces it waits on.           *)
(***************************************************************************)
EditorPaths == { <<"", "w", "a.ts">> }

EditorLines == { 0 - 1, 0 }

\* A text one character longer than the editor accepts.
TooLong == [i \in 1..(MAX_NOTE_LENGTH + 1) |-> "a"]

TextareaValues == { <<" ">>, <<" ", "a", " ">>, TooLong }

Handled(action, shown, filePath, line) ==
    [action |-> action, target |-> filePath, shown |-> shown,
     stored |-> AnnotationsAt(disk.notes, filePath, line) # {},
     renders |-> <<>>, scheduled |-> <<>>, event |-> NoEvent]

StoreCall(op, filePath, line, io, r) ==
    Call(op, filePath, line, io,
         [ret |-> r.ret, notes |-> <<>>, msgs |-> r.msgs, saveThrew |-> r.saveThrew],
         disk, r.disk)

Query(filePath, line, r) ==
    Call("query", filePath, line, "none",
         [ret |-> TRUE, notes |-> r.notes, msgs |-> r.msgs, saveThrew |-> FALSE],
         disk, r.disk)

\* A modal confirmation keeps the user from every other surface.
NoModal == noteDialog.stage # "confirm"

validateNoteParameters(filePath, line) == ~(filePath = <<>> \/ line < 0)

\* The editor script's saveNote(): what the panel posts for a textarea value
\* (nothing, after an alert, when it is empty or too long).
postedText_anyLength(value) ==
    LET text == trim(value) IN
    IF text = <<>> THEN [posted |-> FALSE, text |-> text]
    ELSE [posted |-> TRUE, text |-> text]

postedText(value) ==
    LET text == trim(value) IN
    IF text = <<>> THEN [posted |-> FALSE, text |-> text]
    ELSE IF Len(text) > MAX_NOTE_LENGTH THEN [posted |-> FALSE, text |-> text]
    ELSE [posted |-> TRUE, text |-> text]

updateDecorationsWithDelay_forgotten(rs, targetFilePath, now) ==
    updateDecorations(rs, targetFilePath, now)

updateDecorationsWithDelay(rs, targetFilePath, now) ==
    LET delayed == Timer(DECORATION_UPDATE_DELAY, "delayed", targetFilePath, 0, 0) IN
    [updateDecorations(rs, targetFilePath, now) EXCEPT
        !.timers = setTimeout(@, delayed), !.set = Append(@, delayed)]

STARTUP_DELAYS == << 500, 1000 >>

updateDecorationsOnStartup(rs, now) ==
    LET first == Timer(STARTUP_DELAYS[1], "startup", NoDoc, 0, 0)
        final == Timer(STARTUP_DELAYS[2], "startup", NoDoc, 0, 0)
    IN [updateDecorations(rs, NoDoc, now) EXCEPT
           !.timers = setTimeout(setTimeout(@, first), final),
           !.set = @ \o << first, final >>]

\* What addNote, editNote, deleteNote and deleteNoteAndRefresh do once the
\* store has reported success.
refreshAfterMutation(rs, filePath, now) ==
    updateDecorationsWithDelay(
        updateDecorationsForAllEditors(updateDecorations(rs, filePath, now), now),
        filePath, now)

Rendered(h, rs) ==
    [h EXCEPT !.shown = @ \o rs.msgs, !.renders = rs.passes, !.scheduled = rs.set]

\* The state a handler leaves once its renders are done.
Commit(rs, h) ==
    /\ disk' = rs.disk
    /\ window' = rs.window
    /\ timers' = rs.timers
    /\ handled' = Rendered(h, rs)

\* addNote up to its await: the add panel opens.
AddNote(filePath, line) ==
    /\ NoModal
    /\ addEditor.stage = "closed"
    /\ IF validateNoteParameters(filePath, line)
       THEN /\ addEditor' = [stage |-> "open", filePath |-> filePath, line |-> line]
            /\ handled' = Handled("addNote", <<>>, filePath, line)
       ELSE /\ addEditor' = addEditor
            /\ handled' = Handled("addNote", << Msg("error", "INVALID_PARAMS") >>,
                                  filePath, line)
    /\ UNCHANGED << storeVars, noteDialog, listing >>
    /\ UNCHANGED envVars

\* The add panel's save button, and addNote from its await on.
AddEditorSave(value, io) ==
    LET post == postedText(value)
        noteText == post.text
        existed == noteExists(disk, addEditor.filePath, addEditor.line, clock, io)
        r == addOrUpdateNote(existed.disk, addEditor.filePath, addEditor.line,
                             noteText, clock, io)
        message == IF existed.ret THEN "NOTE_UPDATED" ELSE "NOTE_ADDED"
        rendered == IF r.ret
                    THEN refreshAfterMutation(Rendering(window, r.disk, timers),
                                              addEditor.filePath, clock)
                    ELSE Rendering(window, r.disk, timers)
    IN
    /\ NoModal
    /\ addEditor.stage = "open"
    /\ IF ~post.posted
       THEN /\ handled' = Handled("alert", <<>>, addEditor.filePath, addEditor.line)
            /\ UNCHANGED << storeVars, addEditor, window, timers >>
       ELSE IF noteText # <<>> /\ trim(noteText) # <<>>
       THEN /\ \/ Len(r.loaded) < MaxNotes
               \/ existingNoteIndex(r.loaded, addEditor.filePath, addEditor.line) > 0
            /\ Len(timers) < MaxTimers
            /\ last' = StoreCall("upsert", addEditor.filePath, addEditor.line, io, r)
            /\ \E rs \in { rendered } :
                  Commit(rs, Handled("addSave",
                      existed.msgs \o r.msgs \o
                      (IF r.ret THEN << Msg("info", message) >>
                       ELSE << Msg("error", "ADD_NOTE_ERROR") >>),
                      addEditor.filePath, addEditor.line))
            /\ addEditor' = NoEditor
            /\ UNCHANGED clock
       ELSE /\ handled' = Handled("addSave", <<>>, addEditor.filePath, addEditor.line)
            /\ addEditor' = NoEditor
            /\ UNCHANGED << storeVars, window, timers >>
    /\ UNCHANGED << noteDialog, listing, click, burst >>

\* The add panel's cancel button, or the panel being closed.
AddEditorCancel ==
    /\ NoModal
    /\ addEditor.stage = "open"
    /\ handled' = Handled("addCancel", <<>>, addEditor.filePath, addEditor.line)
    /\ addEditor' = NoEditor
    /\ UNCHANGED << storeVars, noteDialog, listing >>
    /\ UNCHANGED envVars

\* handleNoteClick, and showNoteDialog up to its await: the quick pick opens.
HandleNoteClick(filePath, line) ==
    LET r == getNotesForFile(disk, filePath, clock, "none")
        hits == { i \in 1..Len(r.notes) : r.notes[i].line = line }
        first == CHOOSE i \in hits : \A j \in hits : i <= j
    IN
    /\ noteDialog.stage = "closed"
    /\ disk' = r.disk
    /\ last' = Query(filePath, line, r)
    /\ handled' = Handled("click", r.msgs, filePath, line)
    /\ noteDialog' = IF hits = {} THEN Closed
                     ELSE [stage |-> "pick", note |-> r.notes[first]]
    /\ UNCHANGED << clock, addEditor, listing >>
    /\ UNCHANGED envVars

\* The quick pick's answer: Modifier opens the edit panel (editNote up to its
\* await), Supprimer the confirmation (deleteNote up to its await).
PickAction(choice) ==
    /\ noteDialog.stage = "pick"
    /\ noteDialog' =
         IF choice = "Modifier" THEN [noteDialog EXCEPT !.stage = "edit"]
         ELSE IF choice = "Supprimer" THEN [noteDialog EXCEPT !.stage = "confirm"]
         ELSE Closed
    /\ handled' = Handled("pick", <<>>, noteDialog.note.filePath, noteDialog.note.line)
    /\ UNCHANGED << storeVars, addEditor, listing >>
    /\ UNCHANGED envVars

\* The edit panel's save button, and editNote from its await on.
EditEditorSave(value, io) ==
    LET post == postedText(value)
        note == noteDialog.note
        newText == trim(post.text)
        r == addOrUpdateNote(disk, note.filePath, note.line, newText, clock, io)
        rendered == IF r.ret
                    THEN refreshAfterMutation(Rendering(window, r.disk, timers),
                                              note.filePath, clock)
                    ELSE Rendering(window, r.disk, timers)
    IN
    /\ noteDialog.stage = "edit"
    /\ IF ~post.posted
       THEN /\ handled' = Handled("alert", <<>>, note.filePath, note.line)
            /\ UNCHANGED << storeVars, noteDialog, window, timers >>
       ELSE IF newText # <<>> /\ trim(newText) # <<>>
       THEN /\ \/ Len(r.loaded) < MaxNotes
               \/ existingNoteIndex(r.loaded, note.filePath, note.line) > 0
            /\ Len(timers) < MaxTimers
            /\ last' = StoreCall("upsert", note.filePath, note.line, io, r)
            /\ \E rs \in { rendered } :
                  Commit(rs, Handled("editSave",
                      r.msgs \o
                      (IF r.ret THEN << Msg("info", "NOTE_UPDATED") >>
                       ELSE << Msg("error", "UPDATE_NOTE_ERROR") >>),
                      note.filePath, note.line))
            /\ noteDialog' = Closed
            /\ UNCHANGED clock
       ELSE /\ handled' = Handled("editSave", <<>>, note.filePath, note.line)
            /\ noteDialog' = Closed
            /\ UNCHANGED << storeVars, window, timers >>
    /\ UNCHANGED << addEditor, listing, click, burst >>

\* The edit panel's cancel button, or the panel being closed.
EditEditorCancel ==
    /\ noteDialog.stage = "edit"
    /\ handled' = Handled("editCancel", <<>>, noteDialog.note.filePath,
                          noteDialog.note.line)
    /\ noteDialog' = Closed
    /\ UNCHANGED << storeVars, addEditor, listing >>
    /\ UNCHANGED envVars

\* deleteNote's test of the modal confirmation's answer.
confirmsDelete_anyAnswer(confirm) == TRUE

confirmsDelete(confirm) == confirm = "Supprimer"

\* The confirmation's answer, and deleteNote from its await on.  The action
\* recorded is the answer given.
ConfirmDelete(confirm, io) ==
    LET note == noteDialog.note
        r == deleteNote(disk, note.filePath, note.line, clock, io)
        rendered == IF r.ret
                    THEN refreshAfterMutation(Rendering(window, r.disk, timers),
                                              note.filePath, clock)
                    ELSE Rendering(window, r.disk, timers)
    IN
    /\ noteDialog.stage = "confirm"
    /\ noteDialog' = Closed
    /\ IF confirmsDelete(confirm)
       THEN /\ r.ret => Len(timers) < MaxTimers
            /\ last' = StoreCall("delete", note.filePath, note.line, io, r)
            /\ \E rs \in { rendered } :
                  Commit(rs, Handled(IF confirm = "Supprimer" THEN "confirmDelete"
                                     ELSE "confirmCancel",
                      r.msgs \o
                      (IF r.ret THEN << Msg("info", "NOTE_DELETED") >>
                       ELSE << Msg("warning", "NOTE_NOT_FOUND") >>),
                      note.filePath, note.line))
            /\ UNCHANGED clock
       ELSE /\ handled' = Handled("confirmCancel", <<>>, note.filePath, note.line)
            /\ UNCHANGED << storeVars, window, timers >>
    /\ UNCHANGED << addEditor, listing, click, burst >>

\* showAllNotes: the list panel opens on the notes as they are now.
ShowAllNotes ==
    LET r == getAllNotesSorted(disk, clock, "none") IN
    /\ NoModal
    /\ disk' = r.disk
    /\ last' = Query(<<>>, 0, r)
    /\ IF Len(r.notes) = 0
       THEN /\ handled' = Handled("showAll",
                              r.msgs \o << Msg("info", "NO_NOTES_FOUND") >>, <<>>, 0)
            /\ listing' = listing
       ELSE /\ handled' = Handled("showAll", r.msgs, <<>>, 0)
            /\ listing' = r.notes
    /\ UNCHANGED << clock, addEditor, noteDialog >>
    /\ UNCHANGED envVars

\* The list panel's delete button on its i-th row: deleteNoteAndRefresh.
ListDelete(i, io) ==
    LET note == listing[i]
        r == deleteNote(disk, note.filePath, note.line, clock, io)
        rendered == IF r.ret
                    THEN refreshAfterMutation(Rendering(window, r.disk, timers),
                                              note.filePath, clock)
                    ELSE Rendering(window, r.disk, timers)
    IN
    /\ NoModal
    /\ i \in 1..Len(listing)
    /\ r.ret => Len(timers) < MaxTimers
    /\ last' = StoreCall("delete", note.filePath, note.line, io, r)
    /\ \E rs \in { rendered } :
          Commit(rs, Handled("listDelete",
              r.msgs \o
              (IF r.ret THEN << Msg("info", "NOTE_DELETED") >>
               ELSE << Msg("error", "DELETE_NOTE_ERROR") >>),
              note.filePath, note.line))
    /\ UNCHANGED << clock, addEditor, noteDialog, listing, click, burst >>

\* The list panel is closed.
ListClose ==
    /\ NoModal
    /\ listing # <<>>
    /\ listing' = <<>>
    /\ handled' = Handled("listClose", <<>>, <<>>, 0)
    /\ UNCHANGED << storeVars, addEditor, noteDialog >>
    /\ UNCHANGED envVars

(***************************************************************************)
(* Time and the timers.                                                    *)
(***************************************************************************)
Quantum == CLICK_DEBOUNCE_TIME \div 2

\* dt milliseconds pass; no pending timer is overdue.
Elapse(dt) ==
    /\ timers # <<>>
    /\ \A i \in 1..Len(timers) : timers[i].remaining >= dt
    /\ timers' = [i \in 1..Len(timers) |->
                     [timers[i] EXCEPT !.remaining = @ - dt]]
    /\ UNCHANGED << storeVars, uiVars, window, click, burst >>

\* The timer the event loop runs next: the first set among those due.
Due(i) ==
    /\ i \in 1..Len(timers)
    /\ timers[i].remaining = 0
    /\ \A j \in 1..(i - 1) : timers[j].remaining > 0

Without(pending, i) == SubSeq(pending, 1, i - 1) \o SubSeq(pending, i + 1, Len(pending))

(***************************************************************************)
(* ClickHandler                                                            *)
(***************************************************************************)
MarkerWindow == 10

SelectionKinds == { "Mouse", "Keyboard", "Command" }

ClickCharacters == { 0, 5 }

Position(line, character) == [line |-> line, character |-> character]

isSamePosition_never(c, line, character) == FALSE

isSamePosition(c, line, character) ==
    /\ c.lastClickPosition # NoPosition
    /\ c.lastClickPosition.line = line
    /\ c.lastClickPosition.character = character

\* The selection handler's early returns.
startsDebounce_anyKind(c, isEmpty, kind, line, character) ==
    /\ isEmpty
    /\ ~isSamePosition(c, line, character)

startsDebounce(c, isEmpty, kind, line, character) ==
    /\ isEmpty
    /\ kind = "Mouse"
    /\ ~isSamePosition(c, line, character)

\* clearTimeout of the click handler's handle: at most one click timer is
\* pending, the one set for the position the handle was taken at.
clearTimeout(pending, handle) ==
    SelectSeq(pending,
        LAMBDA t : ~(t.kind = "click" /\ Position(t.line, t.character) = handle))

debounceClick_noClear(pending, c, timer) ==
    [timers |-> setTimeout(pending, timer),
     clickTimeout |-> Position(timer.line, timer.character)]

debounceClick(pending, c, timer) ==
    LET cleared == IF c.clickTimeout # NoTimeout
                   THEN clearTimeout(pending, c.clickTimeout) ELSE pending
    IN [timers |-> setTimeout(cleared, timer),
        clickTimeout |-> Position(timer.line, timer.character)]

\* onDidChangeTextEditorSelection.
SelectionEvent(filePath, isEmpty, kind, line, character) ==
    LET starts == startsDebounce(click, isEmpty, kind, line, character)
        d == debounceClick(timers, click,
                 Timer(CLICK_DEBOUNCE_TIME, "click", filePath, line, character))
        next == IF starts
                THEN [lastClickPosition |-> Position(line, character),
                      clickTimeout |-> d.clickTimeout]
                ELSE click
        pending == IF starts THEN d.timers ELSE timers
    IN
    /\ filePath \in window.visible
    /\ line < window.lineCount[filePath]
    /\ Len(pending) <= MaxTimers
    /\ click' = next
    /\ timers' = pending
    /\ burst' = IF ~starts THEN burst
                ELSE IF click.clickTimeout = NoTimeout
                THEN [NoBurst EXCEPT !.position = Position(line, character)]
                ELSE [burst EXCEPT !.position = Position(line, character),
                                   !.superseded = TRUE]
    /\ handled' = [Handled("selection", <<>>, filePath, line) EXCEPT !.event =
           [isEmpty |-> isEmpty, kind |-> kind, line |-> line,
            character |-> character,
            repeat |-> click.lastClickPosition = Position(line, character),
            positionChanged |-> next.lastClickPosition # click.lastClickPosition,
            timerChanged |-> pending # timers,
            started |-> /\ pending # <<>>
                        /\ pending[Len(pending)] =
                             Timer(CLICK_DEBOUNCE_TIME, "click", filePath, line, character)
                        /\ \A i \in 1..(Len(pending) - 1) : pending[i].kind # "click"]]
    /\ UNCHANGED << storeVars, addEditor, noteDialog, listing, window >>

\* handlePotentialNoteClick's test that the click is in the last characters
\* of the line, where the marker is drawn.
isNearEndOfLine_wholeLine(character, length) == character >= 0

isNearEndOfLine(character, length) ==
    character >= (IF length - MarkerWindow > 0 THEN length - MarkerWindow ELSE 0)

\* The end of the debounce timer's callback: the handle is dropped.
callbackDone_handleKept(c) == c

callbackDone(c) == [c EXCEPT !.clickTimeout = NoTimeout]

\* The debounce timer's callback: handlePotentialNoteClick, and through
\* onNoteClick handleNoteClick and showNoteDialog up to its await.
FireClickTimer ==
    \E i \in 1..Len(timers) :
        LET t == timers[i]
            inDocument == t.line >= 0 /\ t.line < window.lineCount[t.target]
            looked == /\ inDocument
                      /\ isNearEndOfLine(t.character, window.textLength[t.target])
            q == getNotesForFile(disk, t.target, clock, "none")
            found == looked /\ \E k \in 1..Len(q.notes) : q.notes[k].line = t.line
            r == getNotesForFile(q.disk, t.target, clock, "none")
            hits == { k \in 1..Len(r.notes) : r.notes[k].line = t.line }
            first == CHOOSE k \in hits : \A j \in hits : k <= j
        IN
        /\ Due(i)
        /\ t.kind = "click"
        /\ noteDialog.stage \in { "closed", "pick" }
        /\ timers' = Without(timers, i)
        /\ click' = callbackDone(click)
        /\ burst' = [burst EXCEPT !.evaluations = @ + 1,
                                  !.evaluated = Position(t.line, t.character),
                                  !.resolved = IF found THEN @ + 1 ELSE @]
        /\ disk' = IF found THEN r.disk ELSE IF looked THEN q.disk ELSE disk
        /\ last' = IF found THEN Query(t.target, t.line, r)
                   ELSE IF looked THEN Query(t.target, t.line, q) ELSE last
        /\ handled' = Handled("clickTimer",
                              IF found THEN q.msgs \o r.msgs
                              ELSE IF looked THEN q.msgs ELSE <<>>,
                              t.target, t.line)
        /\ noteDialog' = IF found /\ hits # {}
                         THEN [stage |-> "pick", note |-> r.notes[first]]
                         ELSE noteDialog
        /\ UNCHANGED << clock, addEditor, listing, window >>

\* One editor, on a document with a note on its first line.
ClickDoc == Docs[1]

StoredNote == Note(ClickDoc, 0, <<"a">>, 0)

InitClick ==
    /\ UiInit
    /\ disk = [EmptyDisk EXCEPT !.notes = JSONstringify([notes |-> << StoredNote >>])]
    /\ clock = 0
    /\ last = NoCall
    /\ window = [NoWindow EXCEPT !.active = ClickDoc, !.visible = { ClickDoc },
                                 !.lineCount[ClickDoc] = MaxLines]
    /\ timers = <<>>
    /\ click = Idle
    /\ burst = NoBurst

NextClick ==
    \/ \E isEmpty \in BOOLEAN, kind \in SelectionKinds,
          line \in 0..(MaxLines - 1), character \in ClickCharacters :
          SelectionEvent(ClickDoc, isEmpty, kind, line, character)
    \/ Elapse(Quantum)
    \/ FireClickTimer
    \/ PickAction("Annuler")

SpecClick == InitClick /\ [][NextClick]_vars

\* Mouse clicks alone, with time passing and the event loop running the
\* timers that are due: setTimeout's callback runs once its delay has passed.
NextClickLive ==
    \/ \E line \in 0..(MaxLines - 1), character \in ClickCharacters :
          SelectionEvent(ClickDoc, TRUE, "Mouse", line, character)
    \/ Elapse(Quantum)
    \/ FireClickTimer
    \/ PickAction("Annuler")

SpecClickLive ==
    /\ InitClick
    /\ [][NextClickLive]_vars
    /\ WF_vars(Elapse(Quantum))
    /\ WF_vars(FireClickTimer)

(***************************************************************************)
(* The render timers' callbacks.                                           *)
(*   "delayed"  updateDecorationsWithDelay: the target, then every editor  *)
(*   "startup"  updateDecorationsOnStartup: the active editor, then every  *)
(*              editor                                                     *)
(*   "active"   onDidChangeActiveTextEditor: the active editor             *)
(*   "file"     onDidOpenTextDocument: the opened document                 *)
(***************************************************************************)
FireRenderTimer ==
    \E i \in 1..Len(timers) :
        LET t == timers[i]
            start == Rendering(window, disk, Without(timers, i))
            first == updateDecorations(start,
                         IF t.kind \in { "delayed", "file" } THEN t.target ELSE NoDoc,
                         clock)
            rs == IF t.kind \in { "delayed", "startup" }
                  THEN updateDecorationsForAllEditors(first, clock)
                  ELSE first
        IN
        /\ Due(i)
        /\ t.kind # "click"
        /\ \E done \in { rs } : Commit(done, Handled(t.kind, <<>>, t.target, 0))
        /\ UNCHANGED << clock, last, addEditor, noteDialog, listing, click, burst >>

\* The editors while the panels and dialogs are used: the annotated document
\* in the active editor, or in a visible editor while a panel has the focus.
(***************************************************************************)
(* The extension from its activation on, with the editor events it listens *)
(* to and the changes it is not told of: a document gaining or losing      *)
(* lines, another program rewriting the notes file.                        *)
(***************************************************************************)
EDITOR_EVENT_DELAY == 100

AnnotationA0 == Note(Docs[1], 0, <<"a">>, 0)

AnnotationA1 == Note(Docs[1], 1, <<"b">>, 0)

AnnotationB1 == Note(Docs[2], 1, <<"c">>, 0)

RenderContents ==
    { JSONstringify([notes |-> << AnnotationA1 >>]),
      JSONstringify([notes |-> << AnnotationB1, AnnotationA1, AnnotationA0 >>]) }

\* The windows the extension can be activated in.
RenderWindows ==
    { [NoWindow EXCEPT !.active = a, !.visible = DocPaths] : a \in { NoDoc, Docs[1] } }

\* NotesManager's constructor: the notes file is initialized, the active
\* editor is rendered and the two startup timers are set.
Activated(w, d) ==
    updateDecorationsOnStartup(Rendering(w, initializeNotesFile(d, "none"), <<>>), 0)

InitRender ==
    /\ addEditor = NoEditor
    /\ noteDialog = Closed
    /\ listing = <<>>
    /\ clock = 0
    /\ last = NoCall
    /\ click = Idle
    /\ burst = NoBurst
    /\ \E w \in RenderWindows,
          d \in { EmptyDisk } \cup { [EmptyDisk EXCEPT !.notes = c] : c \in RenderContents } :
          \E rs \in { Activated(w, d) } :
              /\ disk = rs.disk
              /\ window = rs.window
              /\ timers = rs.timers
              /\ handled = Rendered([NotHandled EXCEPT !.action = "activate"], rs)

\* onDidOpenTextDocument: one timer, for the opened document.
OpenDocument(document) ==
    LET opened == Timer(EDITOR_EVENT_DELAY, "file", document, 0, 0) IN
    /\ Len(timers) < MaxTimers
    /\ timers' = setTimeout(timers, opened)
    /\ handled' = [Handled("openDocument", <<>>, document, 0) EXCEPT
                       !.scheduled = << opened >>]
    /\ UNCHANGED << storeVars, addEditor, noteDialog, listing, window, click, burst >>

\* The active editor changes; onDidChangeActiveTextEditor sets one timer.
ChangeActiveTextEditor(editor) ==
    LET changed == Timer(EDITOR_EVENT_DELAY, "active", NoDoc, 0, 0) IN
    /\ Len(timers) < MaxTimers
    /\ editor # window.active
    /\ editor \in window.visible \cup { NoDoc }
    /\ window' = [window EXCEPT !.active = editor]
    /\ timers' = setTimeout(timers, changed)
    /\ handled' = [Handled("changeActiveTextEditor", <<>>, editor, 0) EXCEPT
                       !.scheduled = << changed >>]
    /\ UNCHANGED << storeVars, addEditor, noteDialog, listing, click, burst >>

\* The text of a visible document is edited: it has lineCount lines now.
EditDocument(document, lineCount) ==
    /\ document \in window.visible
    /\ lineCount # window.lineCount[document]
    /\ window' = [window EXCEPT !.lineCount[document] = lineCount]
    /\ UNCHANGED << storeVars, uiVars, timers, click, burst >>

NextRender ==
    \/ OpenDocument(Docs[2])
    \/ \E editor \in DocPaths : ChangeActiveTextEditor(editor)
    \/ \E lineCount \in 1..MaxLines : EditDocument(Docs[1], lineCount)
    \/ \E c \in RenderContents : ExternalWrite(c)
    \/ \E i \in 1..Len(timers) : Elapse(timers[i].remaining)
    \/ FireRenderTimer

SpecRender == InitRender /\ [][NextRender]_vars

(***************************************************************************)
(* The click handler with two editors side by side, each document with a   *)
(* note on its first line: the one handler serves both.                    *)
(***************************************************************************)
StoredNotes == << Note(Docs[1], 0, <<"a">>, 0), Note(Docs[2], 0, <<"b">>, 0) >>

InitClickDocs ==
    /\ UiInit
    /\ disk = [EmptyDisk EXCEPT !.notes = JSONstringify([notes |-> StoredNotes])]
    /\ clock = 0
    /\ last = NoCall
    /\ window = [NoWindow EXCEPT !.active = Docs[1], !.visible = DocPaths,
                                 !.lineCount = [p \in DocPaths |-> MaxLines]]
    /\ timers = <<>>
    /\ click = Idle
    /\ burst = NoBurst

NextClickDocs ==
    \/ \E document \in DocPaths, kind \in { "Mouse", "Keyboard" },
          line \in 0..(MaxLines - 1), character \in ClickCharacters :
          SelectionEvent(document, TRUE, kind, line, character)
    \/ Elapse(Quantum)
    \/ FireClickTimer
    \/ PickAction("Annuler")

SpecClickDocs == InitClickDocs /\ [][NextClickDocs]_vars

(***************************************************************************)
(* The click handler while the document is edited and the notes file is    *)
(* rewritten between a click and its timer.                                *)
(***************************************************************************)
LineTextLengths == { 8, LineTextLength, 20 }

\* The lines of a visible document are edited: they are length long now.
EditLineText(document, length) ==
    /\ document \in window.visible
    /\ length # window.textLength[document]
    /\ window' = [window EXCEPT !.textLength[document] = length]
    /\ UNCHANGED << storeVars, uiVars, timers, click, burst >>

ClickContents ==
    { JSONstringify([notes |-> <<>>]),
      JSONstringify([notes |-> << StoredNote >>]) }

NextClickEdit ==
    \/ \E line \in 0..(MaxLines - 1), character \in ClickCharacters :
          SelectionEvent(ClickDoc, TRUE, "Mouse", line, character)
    \/ Elapse(Quantum)
    \/ FireClickTimer
    \/ PickAction("Annuler")
    \/ \E lineCount \in 1..MaxLines : EditDocument(ClickDoc, lineCount)
    \/ \E length \in LineTextLengths : EditLineText(ClickDoc, length)
    \/ \E c \in ClickContents : ExternalWrite(c)

SpecClickEdit == InitClick /\ [][NextClickEdit]_vars

UiWindows ==
    { [NoWindow EXCEPT !.active = a, !.visible = { Docs[1] }] : a \in { Docs[1], NoDoc } }

InitUi ==
    /\ UiInit
    /\ disk \in { EmptyDisk, [EmptyDisk EXCEPT !.notes = JSONstringify([notes |-> <<>>])] }
    /\ clock = 0
    /\ last = NoCall
    /\ window \in UiWindows
    /\ timers = <<>>
    /\ click = Idle
    /\ burst = NoBurst

NextUi ==
    \/ \E p \in EditorPaths, l \in EditorLines : AddNote(p, l)
    \/ \E v \in TextareaValues, io \in { "none", "write" } : AddEditorSave(v, io)
    \/ AddEditorCancel
    \/ \E p \in EditorPaths, l \in EditorLines : HandleNoteClick(p, l)
    \/ \E c \in { "Modifier", "Supprimer", "Annuler" } : PickAction(c)
    \/ \E v \in TextareaValues, io \in { "none", "write" } : EditEditorSave(v, io)
    \/ EditEditorCancel
    \/ \E c \in { "Supprimer", "Annuler" }, io \in { "none", "write" } : ConfirmDelete(c, io)
    \/ ShowAllNotes
    \/ \E i \in 1..MaxNotes, io \in { "none", "write" } : ListDelete(i, io)
    \/ ListClose
    \/ Elapse(DECORATION_UPDATE_DELAY)
    \/ FireRenderTimer

SpecUi == InitUi /\ [][NextUi]_vars

(***************************************************************************)
(* Claims on the store's mutations, checked under Spec.                    *)
(***************************************************************************)

\* C1: from an absent or empty notes file, after any sequence of upserts and
\* deletes the persisted array holds at most one element per (canonical
\* filePath, line), and a completed upsert on a stored pair leaves exactly one.
C1_UniquePairs ==
    /\ \A i, j \in 1..Len(disk.notes.notes) :
          ( /\ resolve(disk.notes.notes[i].filePath) = resolve(disk.notes.notes[j].filePath)
            /\ disk.notes.notes[i].line = disk.notes.notes[j].line ) => i = j
    /\ (last.op = "upsert" /\ last.stored /\ ~last.saveThrew)
          => Cardinality(ElementsAt(disk.notes, last.filePath, last.line)) = 1

\* An upsert through another spelling of a stored path replaced the stored
\* element while another annotation was in the file.
C1_Witness ==
    /\ last.op = "upsert"
    /\ last.stored
    /\ ~last.saveThrew
    /\ last.filePath # resolve(last.filePath)
    /\ Len(disk.notes.notes) = 2

\* C2: addOrUpdateNote and deleteNote return true only if the save succeeded:
\* when writing or renaming the temporary file fails they return false.
C2_TrueOnlyIfSaved ==
    (last.op \in { "upsert", "delete" } /\ last.saveThrew) => last.ret = FALSE

\* C8: deleteNote(p, l) with no annotation at (canonical p, l) returns false,
\* saves nothing and leaves the notes file as it was.
C8_DeleteNotFound ==
    (last.op = "delete" /\ ~last.stored)
        => /\ last.ret = FALSE
           /\ ~last.notesFileChanged
           /\ ~last.tmpChanged
           /\ last.msgs = <<>>

\* A delete found nothing while the file held an element that a load drops.
C8_Witness ==
    /\ last.op = "delete"
    /\ ~last.stored
    /\ \E i \in 1..Len(disk.notes.notes) : ~IsAnnotation(disk.notes.notes[i])

(***************************************************************************)
(* Claims on loading and on writes to the notes file, checked under        *)
(* SpecLoad.                                                               *)
(***************************************************************************)

\* C3: every write the program makes to the notes file goes through a
\* temporary file and a rename, so the notes file never holds the bytes of a
\* write that did not complete.
C3_NeverPartial == ~disk.notes.torn

\* C4: a load of a notes file that exists and is not JSON, or is JSON of
\* another shape than {notes: array}, returns {notes: []} and creates exactly
\* one new backup file.  (Stated for the loads whose copy did not fail and for
\* files that are not blank, where the claim is least in doubt.)
C4_OneNewBackup ==
    (last.op = "load" /\ disk.notes.kind \in { "garbage", "badshape" } /\ last.io = "none")
        => (last.notes = <<>> /\ last.newBackups = 1)

\* C5: a backup is written to a path that did not exist before, and every
\* earlier backup keeps its content.
C5_NeverOverwrites ==
    (last.op = "load" /\ disk.notes.kind \in { "garbage", "badshape" } /\ last.io = "none")
        => (last.backupPathFree /\ last.lostBackups = 0)

\* The k-th kept element of a persisted array, in the array's order.
KeptIndices(raw) == { i \in 1..Len(raw) : IsAnnotation(raw[i]) }

KthKept(raw, k) ==
    CHOOSE i \in KeptIndices(raw) :
        Cardinality({ j \in KeptIndices(raw) : j < i }) = k - 1

\* C6: a load of a {notes: array} file returns exactly the elements that are
\* annotations, in their order, each with its path canonical and its text
\* trimmed; the others are dropped; nothing is shown and no backup is made.
C6_LoadKeepsValid ==
    (last.op = "load" /\ disk.notes.kind = "notes")
        => /\ last.msgs = <<>>
           /\ last.newBackups = 0 /\ last.lostBackups = 0
           /\ ~last.notesFileChanged
           /\ Len(last.notes) = Cardinality(KeptIndices(disk.notes.notes))
           /\ \A k \in 1..Len(last.notes) :
                LET e == disk.notes.notes[KthKept(disk.notes.notes, k)] IN
                /\ last.notes[k].filePath = resolve(e.filePath)
                /\ last.notes[k].filePath[1] = ""
                /\ last.notes[k].text = trim(e.text)
                /\ last.notes[k].text[1] # " "
                /\ last.notes[k].text[Len(last.notes[k].text)] # " "
                /\ last.notes[k].line = e.line
                /\ last.notes[k].timestamp = e.timestamp

\* A load kept two elements around one it dropped, and rewrote a path and a text.
C6_Witness ==
    /\ last.op = "load"
    /\ disk.notes.kind = "notes"
    /\ Len(disk.notes.notes) = 3
    /\ Len(last.notes) = 2
    /\ \E k \in 1..2 :
         LET e == disk.notes.notes[KthKept(disk.notes.notes, k)] IN
         last.notes[k].filePath # e.filePath /\ last.notes[k].text # e.text

\* C7: a load when the notes file does not exist returns the empty
\* collection, shows no error and creates no backup.
C7_LoadAbsent ==
    (last.op = "load" /\ disk.notes.kind = "absent")
        => /\ last.notes = <<>>
           /\ last.msgs = <<>>
           /\ last.newBackups = 0 /\ last.lostBackups = 0
           /\ ~last.notesFileChanged

\* A load found no file where an earlier load had backed a corrupt one up.
C7_Witness ==
    /\ last.op = "load"
    /\ disk.notes.kind = "absent"
    /\ disk.backups # {}


(***************************************************************************)
(* Claims on what the orchestrator reports, checked under SpecUi.          *)
(***************************************************************************)
Shows(severity, text) ==
    \E i \in 1..Len(handled.shown) : handled.shown[i] = Msg(severity, text)

ShowsError ==
    \E i \in 1..Len(handled.shown) : handled.shown[i].severity = "error"

\* C9: when the edit panel submits a text for a note that is no longer
\* stored, the user is told the note was not found, not that it was updated.
C9_EditAfterDelete ==
    (handled.action = "editSave" /\ ~handled.stored) =>
        /\ \E sev \in { "info", "warning" } : Shows(sev, "NOTE_NOT_FOUND")
        /\ ~Shows("info", "NOTE_UPDATED")

\* C10: a delete of a note that is not stored, confirmed in the dialog or
\* pressed in the list panel, shows the not-found notice and no error.
C10_DeleteMissingIsInformational ==
    (handled.action \in { "confirmDelete", "listDelete" } /\ ~handled.stored) =>
        /\ \E sev \in { "info", "warning" } : Shows(sev, "NOTE_NOT_FOUND")
        /\ ~ShowsError


(***************************************************************************)
(* Claims on the click handler, checked under SpecClick.                   *)
(***************************************************************************)

\* C11: in a burst of selection events, each starting the debounce before the
\* timer of the one before has run, the pending position is evaluated at most
\* once, the click callback is invoked at most once, and the evaluation that
\* runs is the one of the most recent position that started the debounce.
C11_DebounceResolvesOnce ==
    /\ burst.evaluations <= 1
    /\ burst.resolved <= 1
    /\ burst.evaluations = 1 => burst.evaluated = burst.position
    /\ Cardinality({ i \in 1..Len(timers) : timers[i].kind = "click" }) <= 1

\* A burst in which a later event replaced the pending one, evaluated and
\* resolved once.
C11_Witness ==
    /\ burst.superseded
    /\ burst.evaluations = 1
    /\ burst.resolved = 1

\* C12: a selection event starts the debounce timer, at its position, exactly
\* when its selection is empty, it comes from the mouse and its position is not
\* the recorded one; any other event leaves the recorded position and the
\* pending timers as they were.
C12_OnlyQualifyingEventsAct ==
    handled.action = "selection" =>
        IF handled.event.isEmpty /\ handled.event.kind = "Mouse" /\ ~handled.event.repeat
        THEN handled.event.started /\ handled.event.positionChanged
        ELSE ~handled.event.positionChanged /\ ~handled.event.timerChanged

\* A keyboard move to a new position while a click is pending: left alone.
C12_Witness ==
    /\ handled.action = "selection"
    /\ handled.event.isEmpty
    /\ handled.event.kind = "Keyboard"
    /\ ~handled.event.repeat
    /\ ~handled.event.timerChanged
    /\ \E i \in 1..Len(timers) : timers[i].kind = "click" /\ timers[i].remaining > 0


(***************************************************************************)
(* Claims on rendering after a mutation, checked under SpecUi.             *)
(***************************************************************************)
\* The annotations the store holds for a document.
StoredFor(path) ==
    SelectSeq(disk.notes.notes,
              LAMBDA e : IsAnnotation(e) /\ resolve(e.filePath) = path)

\* The visible documents, in the order the editors are visited.
RECURSIVE VisibleFrom(_)
VisibleFrom(k) ==
    IF k > Len(Docs) THEN <<>>
    ELSE (IF Docs[k] \in window.visible THEN << Docs[k] >> ELSE <<>>)
         \o VisibleFrom(k + 1)

IfActive(path) == IF window.active = path THEN << path >> ELSE <<>>

ReadsCurrentStore ==
    \A k \in 1..Len(handled.renders) :
        handled.renders[k].read = StoredFor(handled.renders[k].path)

ShowsCurrentStore ==
    \A p \in window.visible :
        window.painted[p] =
            SelectSeq(StoredFor(p), LAMBDA e : e.line < window.lineCount[p])

\* C13: when an add, an edit or a delete has succeeded (the store returned
\* true and its save completed), the handler has then rendered the target
\* document, every visible document and the target again, each pass reading
\* the store as the mutation left it, and has set exactly one timer, of 200 ms,
\* for the delayed render; that render reads the store as it then is.
C13_RenderAfterMutation ==
    /\ ( /\ handled.action \in { "addSave", "editSave", "confirmDelete", "listDelete" }
         /\ last.op \in { "upsert", "delete" }
         /\ last.ret
         /\ ~last.saveThrew ) =>
            /\ [k \in 1..Len(handled.renders) |-> handled.renders[k].path]
                 = IfActive(last.filePath) \o VisibleFrom(1) \o IfActive(last.filePath)
            /\ ReadsCurrentStore
            /\ ShowsCurrentStore
            /\ handled.scheduled = << Timer(200, "delayed", last.filePath, 0, 0) >>
    /\ handled.action = "delayed" =>
            /\ [k \in 1..Len(handled.renders) |-> handled.renders[k].path]
                 = IfActive(handled.target) \o VisibleFrom(1)
            /\ ReadsCurrentStore
            /\ ShowsCurrentStore

\* The delayed render of a successful add has run and painted the note.
C13_Witness ==
    /\ handled.action = "delayed"
    /\ Len(handled.renders) = 2
    /\ last.op = "upsert"
    /\ last.ret
    /\ ~last.saveThrew
    /\ window.painted[handled.target] # <<>>
    /\ timers = <<>>


\* C19: every element the add and edit actions have written to the notes
\* file has a text that is trimmed, not empty and at most 1000 characters long,
\* whatever the panel's textarea held; an empty or blank submission is not
\* stored.
C19_StoredTextIsClean ==
    \A i \in 1..Len(disk.notes.notes) :
        /\ disk.notes.notes[i].text = trim(disk.notes.notes[i].text)
        /\ disk.notes.notes[i].text # <<>>
        /\ Len(disk.notes.notes[i].text) <= 1000

\* A padded text was submitted and stored trimmed.
C19_Witness ==
    /\ handled.action \in { "addSave", "editSave" }
    /\ last.op = "upsert"
    /\ ~last.saveThrew
    /\ \E i \in 1..Len(disk.notes.notes) : disk.notes.notes[i].text = <<"a">>

(***************************************************************************)
(* Claims on rendering at editor events, checked under SpecRender.         *)
(***************************************************************************)
RendersActive == \E k \in 1..Len(handled.renders) : handled.renders[k].path = window.active

\* C14: activation and every open-document event render the active document
\* at once and set timers for later renders, and each of those timers' renders
\* covers the active document again.
C14_RecomputedAtEventAndAfter ==
    /\ ( handled.action \in { "activate", "openDocument" } /\ window.active # NoDoc ) =>
            RendersActive /\ handled.scheduled # <<>>
    /\ ( handled.action \in { "startup", "file" } /\ window.active # NoDoc ) =>
            RendersActive

\* The annotations a notes file holds for a document.
AnnotationsOf(content, path) ==
    SelectSeq(content.notes, LAMBDA e : IsAnnotation(e) /\ resolve(e.filePath) = path)

InRange(notes, n) == SelectSeq(notes, LAMBDA e : 0 <= e.line /\ e.line < n)

\* C15: a render pass leaves on each document it renders exactly the stored
\* annotations of that document's path with 0 <= line < lineCount, in stored
\* order; it removes nothing from the store, so getAllNotesSorted still
\* returns every stored annotation, those out of range included.
C15_RenderPaintsInRange ==
    [][ Len(timers') < Len(timers) =>
          /\ handled'.renders # <<>> =>
                \A k \in 1..Len(handled'.renders) :
                    window'.painted[handled'.renders[k].path] =
                        InRange(AnnotationsOf(disk'.notes, handled'.renders[k].path),
                                window'.lineCount[handled'.renders[k].path])
          /\ \A i \in 1..Len(disk.notes.notes) :
                \E j \in 1..Len(getAllNotesSorted(disk', clock', "none").notes) :
                    getAllNotesSorted(disk', clock', "none").notes[j] = disk.notes.notes[i]
      ]_vars

\* An annotation that a render pass left out, its line being beyond the end
\* of the document, is painted now that the document has grown, and another
\* stays out of range in its own document and in the store.
C15_Witness ==
    /\ \E k \in 1..Len(window.painted[Docs[1]]) :
          window.painted[Docs[1]][k].line \in window.warned[Docs[1]]
    /\ window.painted[Docs[2]] = <<>>
    /\ 1 \in window.warned[Docs[2]]
    /\ AnnotationsOf(disk.notes, Docs[2]) # <<>>


(***************************************************************************)
(* Claims on repeated and replacing upserts, checked under Spec.           *)
(***************************************************************************)
\* C17: when addOrUpdateNote is called with the arguments of the call before
\* it, whose save completed, the notes file holds exactly one element for the
\* (canonical path, line) and the same (filePath, line, text) entries as
\* after the first call.
C17_UpsertTwice ==
    ( last.op = "upsert" /\ last.again ) =>
        /\ Cardinality(ElementsAt(disk.notes, last.filePath, last.line)) = 1
        /\ last.entriesKept

\* The second of two identical upserts has saved: the element was replaced.
C17_Witness ==
    /\ last.op = "upsert"
    /\ last.again
    /\ ~last.saveThrew
    /\ last.notesFileChanged
    /\ last.line = 0
    /\ Len(disk.notes.notes) = 2

\* The annotations of a persisted array that are not at (filePath, line).
Others(notes, filePath, line) ==
    SelectSeq(notes,
              LAMBDA e : /\ IsAnnotation(e)
                         /\ ~(resolve(e.filePath) = resolve(filePath) /\ e.line = line))

\* C18: an upsert on a stored annotation whose save completes leaves exactly
\* one entry for the pair, in the place of the one replaced, with the trimmed
\* text given and a timestamp newer than the replaced entry's; the annotations
\* at other pairs are unchanged and in the same order.
C18_ReplaceIsNewer ==
    [][ ( /\ last'.op = "upsert"
          /\ clock' = clock
          /\ last'.stored
          /\ ~last'.saveThrew ) =>
            /\ Cardinality(ElementsAt(disk'.notes, last'.filePath, last'.line)) = 1
            /\ \A i \in ElementsAt(disk'.notes, last'.filePath, last'.line) :
                  /\ \E t \in TextInputs : disk'.notes.notes[i].text = trim(t)
                  /\ \A j \in AnnotationsAt(disk.notes, last'.filePath, last'.line) :
                        /\ i = j
                        /\ disk'.notes.notes[i].timestamp > disk.notes.notes[j].timestamp
            /\ Others(disk'.notes.notes, last'.filePath, last'.line)
                 = Others(disk.notes.notes, last'.filePath, last'.line)
      ]_vars

(***************************************************************************)
(* Claims on saving and loading, checked under SpecRoundTrip.              *)
(***************************************************************************)
\* A collection with every path canonical and every text trimmed.
Normalized(c) ==
    [i \in 1..Len(c) |-> [c[i] EXCEPT !.filePath = resolve(@), !.text = trim(@)]]

\* C16 as stated: loadNotes after saveNotes(c) returns c normalized, and
\* saveNotes(loadNotes()) leaves the persisted collection as it was.
C16_RoundTrip ==
    /\ last.op = "saveLoad" => last.notes = Normalized(last.given)
    /\ last.op = "loadSave" => disk.notes.notes = last.given

\* C16, amended: loadNotes after saveNotes(c) returns the persisted collection
\* normalized, which is c when the write completed and the collection held
\* before when it failed; saveNotes(loadNotes()) leaves the persisted
\* collection as it was up to normalization, and exactly as it was when it was
\* normalized already.
C16_RoundTripUpToNormalization ==
    /\ last.op = "saveLoad" =>
          /\ last.notes = Normalized(disk.notes.notes)
          /\ ~last.saveThrew => disk.notes.notes = last.given
          /\ last.saveThrew => ~last.notesFileChanged
    /\ last.op = "loadSave" =>
          /\ Normalized(disk.notes.notes) = Normalized(last.given)
          /\ last.given = Normalized(last.given) => disk.notes.notes = last.given

\* A collection with a relative path and a padded text was saved, loaded in
\* normalized form, and saved again as loaded.
C16_Witness ==
    /\ last.op = "loadSave"
    /\ ~last.saveThrew
    /\ last.given # <<>>
    /\ last.given # Normalized(last.given)
    /\ disk.notes.notes = Normalized(last.given)

(***************************************************************************)
(* Claims on the sorted query, checked under SpecSorted.                   *)
(***************************************************************************)
Occurrences(c, e) == Cardinality({ i \in 1..Len(c) : c[i] = e })

\* C20: getAllNotesSorted returns the loaded annotations (the valid elements
\* of the notes file, normalized), each as often as it was loaded, with the
\* paths in ascending order and the lines ascending within one path; called
\* again on the same notes file it returns the same sequence.
C20_SortedPermutation ==
    last.op = "sorted" =>
        /\ \A e \in { last.notes[i] : i \in 1..Len(last.notes) }
                 \cup { Normalized(disk.notes.notes)[i] : i \in 1..Len(disk.notes.notes) } :
              Occurrences(last.notes, e) =
                  Occurrences(Normalized(SelectSeq(disk.notes.notes, IsAnnotation)), e)
        /\ \A i, j \in 1..Len(last.notes) :
              i < j =>
                 \/ localeCompare(last.notes[i].filePath, last.notes[j].filePath) < 0
                 \/ /\ last.notes[i].filePath = last.notes[j].filePath
                    /\ last.notes[i].line <= last.notes[j].line
        /\ last.again => last.notes = last.given

\* A second call in a row returned three annotations in an order the notes
\* file does not have them in.
C20_Witness ==
    /\ last.op = "sorted"
    /\ last.again
    /\ Len(last.notes) = 3
    /\ last.notes # Normalized(SelectSeq(disk.notes.notes, IsAnnotation))
    /\ last.notes[1].filePath = last.notes[2].filePath
    /\ last.notes[1].line < last.notes[2].line
    /\ last.notes[2].filePath # last.notes[3].filePath


(***************************************************************************)
(* Claims on the store over any notes file, checked under SpecStore.       *)
(***************************************************************************)
SamePair(a, b) == resolve(a.filePath) = resolve(b.filePath) /\ a.line = b.line

\* C21: paths with one canonical form are one path to the store.  noteExists
\* and getNotesForFile return for a path what they return for every other
\* spelling of it; an upsert that follows a completed upsert on the same pair
\* under another spelling adds no entry (one entry stays one); a delete that
\* follows a completed upsert on the same pair under another spelling reports
\* success and leaves no element for the pair.
C21_RepresentationIndependent ==
    [][ /\ last'.op = "exists" =>
              \A q \in PathInputs :
                  resolve(q) = resolve(last'.filePath) =>
                      noteExists(disk', q, last'.line, clock', "none").ret = last'.ret
        /\ last'.op = "queryFile" =>
              \A q \in PathInputs :
                  resolve(q) = resolve(last'.filePath) =>
                      getNotesForFile(disk', q, clock', "none").notes = last'.notes
        /\ ( /\ last.op = "upsert"
             /\ ~last.saveThrew
             /\ last'.op = "upsert"
             /\ ~last'.saveThrew
             /\ SamePair(last, last')
             /\ last.filePath # last'.filePath
             /\ Cardinality(ElementsAt(disk.notes, last.filePath, last.line)) = 1 ) =>
                Cardinality(ElementsAt(disk'.notes, last.filePath, last.line)) = 1
        /\ ( /\ last.op = "upsert"
             /\ ~last.saveThrew
             /\ last'.op = "delete"
             /\ ~last'.saveThrew
             /\ SamePair(last, last')
             /\ last.filePath # last'.filePath ) =>
                /\ last'.ret
                /\ ElementsAt(disk'.notes, last.filePath, last.line) = {}
      ]_vars

\* An annotation stored under one spelling of its path has been deleted under
\* the other.
C21_Witness ==
    /\ last.op = "delete"
    /\ last.filePath = <<".", "a.ts">>
    /\ last.stored
    /\ last.ret
    /\ ~last.saveThrew
    /\ ElementsAt(disk.notes, <<"", "w", "a.ts">>, 0) = {}
    /\ disk.notes.notes # <<>>


\* C23: noteExists, getNotesForFile and getAllNotesSorted leave the notes
\* file and its temporary sibling as they were, whatever the file holds, and
\* loadNotes returns after the call what it returned before it.
C23_LookupsArePure ==
    [][ last'.op \in { "exists", "queryFile", "sorted" } =>
          /\ disk'.notes = disk.notes
          /\ disk'.tmp = disk.tmp
          /\ loadNotes(disk', clock', "none").notes = loadNotes(disk, clock, "none").notes
      ]_vars

\* A lookup has met a notes file that does not parse: the file was copied to
\* a backup and is still there.
C23_Witness ==
    /\ last.op \in { "exists", "queryFile", "sorted" }
    /\ disk.notes.kind = "garbage"
    /\ last.newBackups = 1
    /\ last.msgs # <<>>

\* What a load keeps of a notes file: its valid elements, normalized.
Kept(f) == Normalized(SelectSeq(f.notes, IsAnnotation))

AtPair(notes, filePath, line) ==
    { i \in 1..Len(notes) :
        resolve(notes[i].filePath) = resolve(filePath) /\ notes[i].line = line }

\* The note an upsert of one of the texts writes.
IsNewNote(e, filePath, line, now) ==
    \E t \in StoreTexts : e = Note(resolve(filePath), line, trim(t), toISOString(now))

UpsertSaved == last'.op = "upsert" /\ last'.ret /\ ~last'.saveThrew

DeleteSaved == last'.op = "delete" /\ last'.ret /\ ~last'.saveThrew

\* C29: an upsert or delete whose save completes leaves in the notes file
\* the elements that were valid at the load, normalized, with the change made
\* and nothing else: the invalid elements are gone from the file, and an
\* upsert on a notes file that does not parse or has the wrong shape leaves
\* the new note alone.
C29_RewriteKeepsValidOnly ==
    [][ /\ (UpsertSaved \/ DeleteSaved) =>
              /\ disk'.notes.kind = "notes"
              /\ ~disk'.notes.torn
              /\ \A i \in 1..Len(disk'.notes.notes) : IsAnnotation(disk'.notes.notes[i])
              /\ Others(disk'.notes.notes, last'.filePath, last'.line) =
                    Others(Kept(disk.notes), last'.filePath, last'.line)
        /\ UpsertSaved =>
              /\ \E i \in AtPair(disk'.notes.notes, last'.filePath, last'.line) :
                    IsNewNote(disk'.notes.notes[i], last'.filePath, last'.line, clock')
              /\ Len(disk'.notes.notes) =
                    IF AtPair(Kept(disk.notes), last'.filePath, last'.line) = {}
                    THEN Len(Kept(disk.notes)) + 1 ELSE Len(Kept(disk.notes))
              /\ disk.notes.kind \in { "garbage", "badshape" } =>
                    /\ Len(disk'.notes.notes) = 1
                    /\ IsNewNote(disk'.notes.notes[1], last'.filePath, last'.line, clock')
        /\ DeleteSaved =>
              disk'.notes.notes = Others(Kept(disk.notes), last'.filePath, last'.line)
      ]_vars

\* An upsert has met a notes file that does not parse: the file was backed up
\* and now holds the new note alone.
C29_Witness ==
    /\ last.op = "upsert"
    /\ last.ret
    /\ ~last.saveThrew
    /\ last.newBackups = 1
    /\ disk.notes.kind = "notes"
    /\ Len(disk.notes.notes) = 1
    /\ disk.notes.notes[1].text = <<"d">>

First(S) == CHOOSE i \in S : \A j \in S : i <= j

\* C30: loadNotes keeps two valid elements with one canonical path and one
\* line, and getNotesForFile returns both; an upsert on their pair replaces
\* the first and leaves the others as they were; a delete on their pair
\* removes every one of them.
C30_DuplicatesKept ==
    [][ /\ last'.op = "queryFile" =>
              last'.notes = SelectSeq(Kept(disk.notes),
                                LAMBDA e : e.filePath = resolve(last'.filePath))
        /\ ( /\ UpsertSaved
             /\ Cardinality(AtPair(Kept(disk.notes), last'.filePath, last'.line)) > 1 ) =>
              LET first == First(AtPair(Kept(disk.notes), last'.filePath, last'.line)) IN
              /\ Len(disk'.notes.notes) = Len(Kept(disk.notes))
              /\ IsNewNote(disk'.notes.notes[first], last'.filePath, last'.line, clock')
              /\ \A i \in 1..Len(disk'.notes.notes) :
                    i # first => disk'.notes.notes[i] = Kept(disk.notes)[i]
        /\ ( /\ DeleteSaved
             /\ Cardinality(AtPair(Kept(disk.notes), last'.filePath, last'.line)) > 1 ) =>
              /\ AtPair(disk'.notes.notes, last'.filePath, last'.line) = {}
              /\ Len(disk'.notes.notes) = Len(Kept(disk.notes))
                    - Cardinality(AtPair(Kept(disk.notes), last'.filePath, last'.line))
      ]_vars

\* An upsert on a pair stored twice has replaced the first element: the
\* second is still in the file, with its own text.
C30_Witness ==
    /\ last.op = "upsert"
    /\ ~last.saveThrew
    /\ Len(disk.notes.notes) = 3
    /\ disk.notes.notes[1].text = <<"d">>
    /\ disk.notes.notes[3] = ElementA0Again
    /\ Cardinality(ElementsAt(disk.notes, last.filePath, last.line)) = 2

(***************************************************************************)
(* Claims on formatTextForDisplay, checked under SpecFormat.               *)
(***************************************************************************)
\* The words of a string: its runs of characters other than space and line
\* feed, in order.
RECURSIVE WordsOf(_, _)
WordsOf(text, word) ==
    IF text = <<>> THEN (IF word = <<>> THEN <<>> ELSE << word >>)
    ELSE IF Head(text) \in { " ", "\n" }
         THEN (IF word = <<>> THEN <<>> ELSE << word >>) \o WordsOf(Tail(text), <<>>)
         ELSE WordsOf(Tail(text), Append(word, Head(text)))

\* The lines of a string: what its line feeds separate.
RECURSIVE LinesOf(_, _)
LinesOf(text, line) ==
    IF text = <<>> THEN << line >>
    ELSE IF Head(text) = "\n" THEN << line >> \o LinesOf(Tail(text), <<>>)
    ELSE LinesOf(Tail(text), Append(line, Head(text)))

\* C22: the result of formatTextForDisplay(text, w) has the words of text, in
\* their order, and each of its lines is at most w long or else is one word,
\* unbroken, that is longer than w.
C22_WrapsWords ==
    last.op = "format" =>
        /\ WordsOf(last.text, <<>>) = WordsOf(last.given, <<>>)
        /\ \A k \in 1..Len(LinesOf(last.text, <<>>)) :
              LET line == LinesOf(last.text, <<>>)[k] IN
              \/ Len(line) <= last.line
              \/ /\ \A c \in 1..Len(line) : line[c] # " "
                 /\ \E i \in 1..Len(WordsOf(last.given, <<>>)) :
                       WordsOf(last.given, <<>>)[i] = line

\* A text without line feeds was wrapped onto two lines, one of them a word
\* longer than the width, the other within it.
C22_Witness ==
    /\ last.op = "format"
    /\ \A c \in 1..Len(last.given) : last.given[c] # "\n"
    /\ Len(LinesOf(last.text, <<>>)) = 2
    /\ \E k \in 1..2 : Len(LinesOf(last.text, <<>>)[k]) > last.line
    /\ \E k \in 1..2 : Len(LinesOf(last.text, <<>>)[k]) \in 1..last.line


(***************************************************************************)
(* Claims on the click handler in a changing document, checked under       *)
(* SpecClickEdit.                                                          *)
(***************************************************************************)
\* C24: when the debounce timer fires for (line, character) of a document,
\* the note-click callback runs if and only if the line is still in the
\* document, character >= max(0, length of the line's text - 10) and the notes
\* file then holds an annotation of the document's path on that line; when
\* the line is gone nothing runs and the handler ends normally, its timer
\* handle cleared.
C24_CallbackIffNearMarker ==
    [][ burst'.evaluations = burst.evaluations + 1 =>
          LET path == handled'.target
              line == burst'.evaluated.line
              character == burst'.evaluated.character
              length == window.textLength[path]
              lineExists == line < window.lineCount[path]
              near == IF length - 10 > 0 THEN character >= length - 10
                      ELSE character >= 0
              annotated == \E k \in 1..Len(AnnotationsOf(disk.notes, path)) :
                               AnnotationsOf(disk.notes, path)[k].line = line
          IN /\ burst'.resolved = burst.resolved + 1
                    <=> (lineExists /\ near /\ annotated)
             /\ burst'.resolved \in { burst.resolved, burst.resolved + 1 }
             /\ ~lineExists => noteDialog' = noteDialog /\ disk' = disk
             /\ click'.clickTimeout = NoTimeout
      ]_vars

\* The timer of a click next to a marker has fired after the line was removed
\* from the document: the callback did not run.
C24_Witness ==
    /\ handled.action = "clickTimer"
    /\ burst.evaluations = 1
    /\ burst.resolved = 0
    /\ burst.evaluated = Position(1, 5)
    /\ window.lineCount[ClickDoc] = 1
    /\ noteDialog.stage = "closed"

(***************************************************************************)
(* Claims on the pending timers, checked under SpecRender.                 *)
(***************************************************************************)
TimersOf(kind) == { i \in 1..Len(timers) : timers[i].kind = kind }

\* C25: the click handler and the extension each hold at most one pending
\* timer per purpose at any time: one click debounce, one startup render, one
\* delayed render after a mutation.
C25_OneTimerPerPurpose ==
    \A kind \in { "click", "startup", "delayed" } : Cardinality(TimersOf(kind)) <= 1

(***************************************************************************)
(* Claims on the abandoned dialogs, checked under SpecUi.                  *)
(***************************************************************************)
AddCancelled ==
    /\ addEditor.stage = "open"
    /\ addEditor'.stage = "closed"
    /\ handled'.action = "addCancel"

EditCancelled ==
    /\ noteDialog.stage = "edit"
    /\ noteDialog'.stage = "closed"
    /\ handled'.action = "editCancel"

DeleteNotConfirmed ==
    /\ noteDialog.stage = "confirm"
    /\ noteDialog'.stage = "closed"
    /\ handled'.action = "confirmCancel"

\* C26: when the add or edit panel is cancelled or closed, or the delete
\* confirmation is answered with anything but Supprimer, the notes file and
\* its temporary and backup files stay as they were, no success message is
\* shown, no editor is rendered again and no delayed render is scheduled.
C26_CancelChangesNothing ==
    [][ (AddCancelled \/ EditCancelled \/ DeleteNotConfirmed) =>
          /\ disk' = disk
          /\ \A i \in 1..Len(handled'.shown) : handled'.shown[i].severity # "info"
          /\ handled'.renders = <<>>
          /\ handled'.scheduled = <<>>
          /\ timers' = timers
          /\ window' = window
      ]_vars

\* The confirmation of a delete was declined while the note was in the file
\* and painted.
C26_Witness ==
    /\ handled.action = "confirmCancel"
    /\ noteDialog.stage = "closed"
    /\ handled.stored
    /\ handled.renders = <<>>
    /\ Len(disk.notes.notes) >= 1

(***************************************************************************)
(* Claims on the click timer's progress, checked under SpecClickLive.      *)
(***************************************************************************)
\* An event that starts the debounce: the position recorded changes.
Qualifying == click'.lastClickPosition # click.lastClickPosition

Settled ==
    /\ click.clickTimeout = NoTimeout
    /\ TimersOf("click") = {}
    /\ click.lastClickPosition # NoPosition => burst.evaluations = 1

\* C27: once no more event starts the debounce, the timer of the last one
\* fires, once, and the handler is left with no timer handle, whether a note
\* was found at the position or not.
C27_TimerFiresOnce ==
    /\ [](burst.evaluations <= 1)
    /\ <>[][~Qualifying]_vars => <>[]Settled

\* The timer of a click on a line without a note has fired and the handle is
\* dropped.
C27_Witness ==
    /\ click.clickTimeout = NoTimeout
    /\ click.lastClickPosition = Position(1, 5)
    /\ burst.evaluations = 1
    /\ burst.resolved = 0
    /\ timers = <<>>
    /\ handled.action = "clickTimer"

(***************************************************************************)
(* Claims on the position the click handler remembers, checked under       *)
(* SpecClickDocs.                                                          *)
(***************************************************************************)
\* A selection event arrives with the caret where the last click was.
EventAtLastClick ==
    /\ handled' # handled
    /\ handled'.action = "selection"
    /\ click.lastClickPosition # NoPosition
    /\ Position(handled'.event.line, handled'.event.character) = click.lastClickPosition

\* C28: the position of the last click is never cleared and is kept for all
\* documents together: it changes only when a mouse event with an empty
\* selection arrives at another position, and an event at the remembered
\* position, in the same document or another, before or after the earlier
\* click's timer has fired, sets no timer and runs no callback.
C28_RepeatedPositionIgnored ==
    [][ /\ EventAtLastClick =>
              /\ timers' = timers
              /\ click' = click
              /\ burst' = burst
              /\ noteDialog' = noteDialog
              /\ disk' = disk
        /\ click.lastClickPosition # NoPosition => click'.lastClickPosition # NoPosition
        /\ click'.lastClickPosition # click.lastClickPosition =>
              /\ handled'.action = "selection"
              /\ handled'.event.isEmpty
              /\ handled'.event.kind = "Mouse"
              /\ click'.lastClickPosition =
                    Position(handled'.event.line, handled'.event.character)
      ]_vars

\* The click on the first document's note was resolved and its dialog closed;
\* a click at the same position on the second document's note started nothing.
C28_Witness ==
    /\ handled.action = "selection"
    /\ handled.target = Docs[2]
    /\ handled.event.kind = "Mouse"
    /\ handled.event.repeat
    /\ Position(handled.event.line, handled.event.character) = Position(0, 5)
    /\ last.op = "query"
    /\ last.filePath = Docs[1]
    /\ burst.resolved = 1
    /\ timers = <<>>
    /\ noteDialog.stage = "closed"

====
